---- MODULE Spec2Model ----
(***************************************************************************)
(* A model of hedlund/orbit: the module registry's Repository (the GitHub  *)
(* Service), its read-through Cache decorator, the archive store and the   *)
(* in-memory TTL store.                                                    *)
(*                                                                         *)
(* SpecDownload : Cache.ProxyDownload over Service.ProxyDownload, with two *)
(*                request goroutines sharing the archive store.            *)
(* SpecList     : Cache.ListVersions over Service.ListVersions, with two   *)
(*                handler goroutines and the cleanup loop on the TTL store.*)
(* SpecService  : the Service alone, one client calling both operations.   *)
(* SpecRewrite  : the restream of Service.ProxyDownload alone.             *)
(* SpecStore    : the TTL store called directly, with its cleanup loop.    *)
(* SpecSweep    : the TTL store called by one goroutine, all durations.    *)
(* SpecKeys     : the Cache asked for the archives of two repositories.    *)
(* SpecToken    : the Handler's download tokens and credentials.           *)
(* SpecHandler  : the Handler's two routes over the Service.               *)
(***************************************************************************)
EXTENDS Integers, Sequences, FiniteSets, TLC

VARIABLES
    cfgRepositories,  \* github.Config.Repositories: owner -> list of repos
    cacheEnabled,     \* whether the Handler's Repository is the Cache decorator
    files,            \* StoreInPath: filename -> [exists, data]
    dl,               \* per request goroutine: the state of its ProxyDownload call
    ncalls,           \* number of ProxyDownload calls started so far
    hist,             \* what has happened so far in the run (faults, overlap)
    nfaults,          \* number of I/O and upstream faults so far
    target,           \* the Archive Request the run's clients ask for
    cfgExpiration,    \* the TTL store's expiry: mcache.New(expiration)
    items,            \* mcache.Cache.items: key -> [value, expires]
    mu,               \* mcache.Cache.mu, a sync.RWMutex
    now,              \* the clock, c.now()
    lv,               \* per handler goroutine: the state of its ListVersions call
    cl,               \* the goroutine of the cleanup loop
    nlist,            \* number of ListVersions calls started so far
    crashed,          \* the process has died of a fatal error of the runtime
    hnow,             \* the Handler's clock h.now(), in ticks
    issued,           \* the download token DownloadURL issued last
    dec,              \* the outcome of the last decodeToken
    cfgToken,         \* github.Config.Token, the static credential
    up,               \* the upstream request of the last Handler.ProxyDownload
    st,               \* per goroutine: the state of its call of the store
    nstore,           \* number of calls of the store started so far
    caller,           \* the caller of StartCleanupLoop and of stop
    wg,               \* the counter of the sync.WaitGroup of StartCleanupLoop
    sc,               \* the channel sc of StartCleanupLoop is closed
    rw                \* the Handler's request in progress and its http.ResponseWriter

\* configuration, set at start
cfgvars == <<cfgRepositories, cacheEnabled, target, cfgExpiration, cfgToken>>
\* the archive side
dlvars == <<files, dl, ncalls, hist, nfaults>>
\* the version-list side
lsvars == <<items, mu, now, lv, cl, nlist, crashed>>
\* the Handler's tokens and responses
hdvars == <<hnow, issued, dec, up, rw>>
\* the callers of the TTL store and of its cleanup loop
stvars == <<st, nstore, caller, wg, sc>>
vars == <<cfgvars, dlvars, lsvars, hdvars, stvars>>

----------------------------------------------------------------------------
(* Bounds of the model *)

\* number of ProxyDownload calls made in one run
MaxCalls == 3

\* number of faults of the upstream, the output sink and the cache file's
\* reads and writes in one run (Open and Create fail without limit)
MaxFaults == 1

\* the request goroutines that may run Cache.ProxyDownload concurrently
DThreads == {"g1", "g2"}

----------------------------------------------------------------------------
(* Errors *)

Nil == [kind |-> "nil", code |-> 0, msg |-> ""]

\* &httpErr{code, msg}
httpErr(code, msg) == [kind |-> "httpErr", code |-> code, msg |-> msg]

\* fmt.Errorf / errors of the standard library: no StatusCode method
Errorf(msg) == [kind |-> "error", code |-> 0, msg |-> msg]

StatusForbidden == 403
StatusOK == 200
StatusInternalServerError == 500

\* respErr(w, err): the status code of the answer, that of the error when it
\* has a StatusCode method
respErr(err) == IF err.kind = "httpErr" THEN err.code ELSE StatusInternalServerError

----------------------------------------------------------------------------
(* Archive Requests and the allow-list *)

Requests ==
    { [owner |-> "acme", repo |-> "infra", module |-> "network", version |-> "1.0.0"] }

NoReq == [owner |-> "", repo |-> "", module |-> "", version |-> ""]

\* the values of Config.Repositories: absent or empty; the request's container
\* listed; its owner listed with another container; another owner listed
AllowLists ==
    { [o \in {} |-> <<>>],
      [o \in {"acme"} |-> <<"other", "infra">>],
      [o \in {"acme"} |-> <<"other">>],
      [o \in {"evil"} |-> <<"infra">>] }

\* validRepo with the bug of looking at the owner alone
validRepo_OwnerOnly(cfg, owner, repo) ==
    IF Cardinality(DOMAIN cfg) = 0 THEN Nil
    ELSE IF owner \in DOMAIN cfg
         THEN Nil
         ELSE httpErr(StatusForbidden, "not a valid repository")

\* func (s *Service) validRepo(owner, repo string) error
validRepo(cfg, owner, repo) ==
    IF Cardinality(DOMAIN cfg) = 0 THEN Nil
    ELSE IF owner \in DOMAIN cfg /\ \E i \in 1..Len(cfg[owner]) : cfg[owner][i] = repo
         THEN Nil
         ELSE httpErr(StatusForbidden, "not a valid repository")

----------------------------------------------------------------------------
(* The archive store: StoreInPath *)

\* fmt.Sprintf("%s-%s-%s-%s.tar.gz", owner, repo, module, version)
Filename(q) ==
    q.owner \o "-" \o q.repo \o "-" \o q.module \o "-" \o q.version \o ".tar.gz"

\* a request for a module whose name has a "." in it
DotRequest == [owner |-> "acme", repo |-> "infra", module |-> "net.work", version |-> "1.0.0"]

\* two requests for different repositories of one owner, the names with a
\* "-" in them
HyphenRequests ==
    { [owner |-> "acme", repo |-> "infra-net", module |-> "work", version |-> "1.0.0"],
      [owner |-> "acme", repo |-> "infra", module |-> "net-work", version |-> "1.0.0"] }

FileNames == { Filename(q) : q \in Requests \cup {DotRequest} \cup HyphenRequests }

NoFile == [exists |-> FALSE, data |-> <<>>]

\* a chunk of a file never written: the gap a write beyond the end leaves
Hole == [k |-> "hole", name |-> "", data |-> ""]

\* write(2) of chunks b at offset off of a file holding data
FileWrite(data, off, b) ==
    LET n == IF Len(data) > off + Len(b) THEN Len(data) ELSE off + Len(b)
    IN  [i \in 1..n |->
            IF i > off /\ i <= off + Len(b) THEN b[i - off]
            ELSE IF i <= Len(data) THEN data[i] ELSE Hole]

----------------------------------------------------------------------------
(* The upstream tarball and the chunks of the archive written from it *)

\* a directory next to the module's: any other one, and for a module with a
\* "." in its name one that differs from it in that place
Sibling(module) == IF module = "net.work" THEN "netxwork" ELSE "othermod"

\* the tarball GitHub serves for the request's tag: the module's directory,
\* an entry of the module and an entry of a sibling module
Tarball(q) ==
    LET top == q.owner \o "-" \o q.repo \o "-" \o "abc123"
        id == q.owner \o "/" \o q.repo \o "/" \o q.module \o "@" \o q.version
    IN  << [top |-> top, mod |-> q.module, rest |-> "", body |-> ""],
           [top |-> top, mod |-> q.module, rest |-> "main.tf", body |-> id \o "#1"],
           [top |-> top, mod |-> Sibling(q.module), rest |-> "b.txt", body |-> id \o "#2"] >>

\* the refs GitHub may put in the top directory's name
Refs == {"abc123"}

\* hdr.Name of an entry
Name(e) == e.top \o "/" \o e.mod \o "/" \o e.rest

\* a part of the prefix that Sprintf put in from a parameter, matched as the
\* regular expression it is: "." stands for any character, the others that
\* occur in the names stand for themselves
LitMatches(pat, str) ==
    /\ Len(pat) = Len(str)
    /\ \A i \in 1..Len(pat) :
         SubSeq(pat, i, i) = "." \/ SubSeq(pat, i, i) = SubSeq(str, i, i)

\* the first "/" of str at or after position i, Len(str) + 1 when none
RECURSIVE IndexSlash(_, _)
IndexSlash(str, i) ==
    IF i > Len(str) THEN i
    ELSE IF SubSeq(str, i, i) = "/" THEN i
    ELSE IndexSlash(str, i + 1)

\* re.FindStringSubmatch(name) for the prefix
\* "^<owner>-<repo>-[^/]+/<module>/(.+)": the match and its group, or nothing
FindStringSubmatch(q, name) ==
    LET head == q.owner \o "-" \o q.repo \o "-"
        s1 == IndexSlash(name, Len(head) + 1)          \* ends [^/]+
        s2 == s1 + Len(q.module) + 1                   \* the "/" after the module
    IN  IF /\ Len(name) > s2
           /\ LitMatches(head, SubSeq(name, 1, Len(head)))
           /\ s1 > Len(head) + 1
           /\ LitMatches(q.module, SubSeq(name, s1 + 1, s2 - 1))
           /\ SubSeq(name, s2, s2) = "/"
        THEN <<name, SubSeq(name, s2 + 1, Len(name))>>
        ELSE << >>

\* len(match) == 2
Match(q, e) == Len(FindStringSubmatch(q, Name(e))) = 2

\* hdr.Name = match[1]
Renamed(q, e) == [e EXCEPT !.rest = FindStringSubmatch(q, Name(e))[2]]

GzHdr == [k |-> "gzhdr", name |-> "", data |-> ""]
HdrChunk(e) == [k |-> "hdr", name |-> e.rest, data |-> ""]
DatChunk(e) == [k |-> "dat", name |-> "", data |-> e.body]
PartChunk(e) == [k |-> "part", name |-> "", data |-> e.body]
TarEnd == [k |-> "tarend", name |-> "", data |-> ""]
GzEnd == [k |-> "gzend", name |-> "", data |-> ""]

RECURSIVE Rewritten(_, _, _)
\* the tar stream copy() writes for entries i.. of the tarball, read without fault
Rewritten(q, es, i) ==
    IF i > Len(es) THEN <<TarEnd>>
    ELSE IF Match(q, es[i])
         THEN <<HdrChunk(Renamed(q, es[i])), DatChunk(es[i])>> \o Rewritten(q, es, i + 1)
         ELSE Rewritten(q, es, i + 1)

\* the bytes Service.ProxyDownload delivers for q when nothing fails
Archive(q) == <<GzHdr>> \o Rewritten(q, Tarball(q), 1) \o <<GzEnd>>

----------------------------------------------------------------------------
(* The writers of a ProxyDownload call: the output sink, the cache file and  *)
(* the tee over both, then gzip.Writer and tar.Writer on top of it.          *)
(* r is the call's state, fdata the contents of its cache file.  Each        *)
(* operator yields the set of outcomes the write can have.                   *)

Outcome(r, fdata, err, faults) ==
    [thr |-> r, fdata |-> fdata, err |-> err, faults |-> faults]

\* w.Write(b), where w is the output sink or io.MultiWriter(sink, cw): the
\* sink is written first and the cache file only if the sink took all of b;
\* a failing writer has taken some strict prefix of b
MultiWriterWrite(r, fdata, b) ==
    IF Len(b) = 0 THEN { Outcome(r, fdata, FALSE, {}) }
    ELSE
      { Outcome([r EXCEPT !.sink = @ \o b,
                          !.woff = IF r.cw = "open" THEN @ + Len(b) ELSE @],
                IF r.cw = "open" THEN FileWrite(fdata, r.woff, b) ELSE fdata,
                FALSE, {}) }
      \cup
      { Outcome([r EXCEPT !.sink = @ \o SubSeq(b, 1, j)], fdata, TRUE, {"sinkfault"}) :
          j \in 0..(Len(b) - 1) }
      \cup
      IF r.cw = "open"
      THEN { Outcome([r EXCEPT !.sink = @ \o b, !.woff = @ + j],
                     FileWrite(fdata, r.woff, SubSeq(b, 1, j)), TRUE, {"cwfault"}) :
               j \in 0..(Len(b) - 1) }
      ELSE {}

\* a write of gzip.Writer to the underlying writer: its error is kept in z.err
GzPhysical(r, fdata, b) ==
    { Outcome([o.thr EXCEPT !.zerr = o.err, !.zbuf = <<>>], o.fdata, o.err, o.faults) :
        o \in MultiWriterWrite(r, fdata, b) }

\* gzip.Writer writes its header to the underlying writer on the first Write
GzHeader(r, fdata) ==
    IF r.zhdr THEN { Outcome(r, fdata, FALSE, {}) }
    ELSE { Outcome([o.thr EXCEPT !.zhdr = TRUE, !.zbuf = r.zbuf], o.fdata, o.err, o.faults) :
             o \in GzPhysical(r, fdata, <<GzHdr>>) }

\* the compressor takes the chunk and either keeps it in its buffer or writes
\* all it holds to the underlying writer
CompressorWrite(r, fdata, c) ==
    { Outcome([r EXCEPT !.zbuf = @ \o <<c>>], fdata, FALSE, {}) }
    \cup GzPhysical(r, fdata, r.zbuf \o <<c>>)

\* gzip.Writer.Write(c)
GzWrite(r, fdata, c) ==
    IF r.zerr THEN { Outcome(r, fdata, TRUE, {}) }
    ELSE UNION { IF h.err THEN {h} ELSE CompressorWrite(h.thr, h.fdata, c) :
                   h \in GzHeader(r, fdata) }

\* gzip.Writer.Close(): header if not yet written, the compressor's buffer,
\* then the trailer
GzClose(r, fdata) ==
    IF r.zerr THEN { Outcome(r, fdata, TRUE, {}) }
    ELSE UNION {
           IF h.err THEN {h}
           ELSE UNION { IF c.err THEN {c} ELSE GzPhysical(c.thr, c.fdata, <<GzEnd>>) :
                          c \in GzPhysical(h.thr, h.fdata, h.thr.zbuf) } :
           h \in GzHeader(r, fdata) }

\* tar.Writer.WriteHeader(hdr): Flush fails on a sticky error or when the
\* entry before was not written in full, else the header goes to gzip
TarWriteHeader(r, fdata, e) ==
    IF r.zerr \/ r.short THEN { Outcome(r, fdata, TRUE, {}) }
    ELSE GzWrite(r, fdata, HdrChunk(e))

\* tar.Writer.Close(): the trailer, unless Flush fails
TarClose(r, fdata) ==
    IF r.zerr \/ r.short THEN { Outcome(r, fdata, TRUE, {}) }
    ELSE GzWrite(r, fdata, TarEnd)

----------------------------------------------------------------------------
(* ProxyDownload calls *)

\* a goroutine that is not in a call
Idle ==
    [pc |-> "idle", req |-> NoReq, sink |-> <<>>,
     rd |-> "none", roff |-> 0,          \* the handle Open returned and its offset
     cw |-> "none", woff |-> 0,          \* the handle Create returned and its offset
     zhdr |-> FALSE, zbuf |-> <<>>, zerr |-> FALSE,   \* gzip.Writer
     short |-> FALSE,                    \* tar.Writer: the current entry is incomplete
     srcerr |-> FALSE,                   \* tar.Reader: sticky read error
     ei |-> 0,                           \* index of the tarball entry being read
     res |-> Nil,                        \* the error the call returns
     http |-> 0,                         \* HTTP requests the call has issued
     status |-> 0,                       \* status code of the last response
     ctxDone |-> FALSE,                  \* the caller's ctx is cancelled or past its deadline
     upcalls |-> 0,                      \* calls of the wrapped Repository
     creates |-> 0,                      \* cache entries the call has created
     opened |-> FALSE]                   \* Open succeeded in this call

InitArchive ==
    /\ files = [f \in FileNames |-> NoFile]
    /\ dl = [t \in DThreads |-> Idle]
    /\ ncalls = 0
    /\ hist = {}
    /\ nfaults = 0

Active(t) == dl[t].pc \notin {"idle", "done"}

\* the call's state and its cache file's contents after a step
Step(t, r, fdata, faults) ==
    /\ dl' = [dl EXCEPT ![t] = r]
    /\ files' = [files EXCEPT ![Filename(dl[t].req)] = [@ EXCEPT !.data = fdata]]
    /\ hist' = hist \cup faults
    /\ faults # {} => nfaults < MaxFaults
    /\ nfaults' = IF faults # {} THEN nfaults + 1 ELSE nfaults
    /\ UNCHANGED <<cfgvars, stvars, hdvars, lsvars, ncalls>>

FileOf(t) == files[Filename(dl[t].req)]

\* the call returns err: the deferred cw.Close() of Cache.ProxyDownload runs
Return(r, err) ==
    [r EXCEPT !.pc = "done", !.res = err,
              !.cw = IF @ = "open" THEN "closed" ELSE @]

\* the Handler calls its Repository's ProxyDownload for the Archive Request,
\* on a goroutine that is in no call
Call(t) ==
    /\ dl[t].pc \in {"idle", "done"}
    /\ ncalls < MaxCalls
    /\ dl' = [dl EXCEPT ![t] = [Idle EXCEPT !.pc = IF cacheEnabled THEN "open" ELSE "svc",
                                            !.req = target]]
    /\ ncalls' = ncalls + 1
    /\ hist' = hist \cup (IF \E u \in DThreads \ {t} : Active(u) THEN {"overlap"} ELSE {})
    /\ UNCHANGED <<cfgvars, stvars, hdvars, lsvars, files, nfaults>>

\* Cache.ProxyDownload: c.files.Open(filename)
CacheOpen(t) ==
    /\ dl[t].pc = "open"
    /\ \E ok \in (IF FileOf(t).exists THEN BOOLEAN ELSE {FALSE}) :
         Step(t, IF ok THEN [dl[t] EXCEPT !.pc = "copy", !.rd = "open", !.roff = 0,
                                          !.opened = TRUE]
                       ELSE [dl[t] EXCEPT !.pc = "create"],
              FileOf(t).data, {})

\* CacheCopy with the bug of falling back to the upstream when the copy fails
CacheCopy_FallsBack(t) ==
    /\ dl[t].pc = "copy"
    /\ \E o \in {"read", "readerr", "writeerr"} :
         LET r == dl[t]
             data == FileOf(t).data
         IN  CASE o = "readerr" ->
                    Step(t, [r EXCEPT !.pc = "create"], data, {"readfault"})
               [] o = "read" /\ r.roff >= Len(data) ->
                    Step(t, Return(r, Nil), data, {})
               [] o = "read" /\ r.roff < Len(data) ->
                    Step(t, [r EXCEPT !.sink = Append(@, data[r.roff + 1]), !.roff = @ + 1],
                         data, {})
               [] o = "writeerr" ->
                    /\ r.roff < Len(data)
                    /\ Step(t, [r EXCEPT !.roff = @ + 1, !.pc = "create"], data, {"sinkfault"})

\* Cache.ProxyDownload: one round of io.Copy(w, r) from the cached file
CacheCopy(t) ==
    /\ dl[t].pc = "copy"
    /\ \E o \in {"read", "readerr", "writeerr"} :
         LET r == dl[t]
             data == FileOf(t).data
         IN  CASE o = "readerr" ->
                    Step(t, Return(r, Errorf("read cached file")), data, {"readfault"})
               [] o = "read" /\ r.roff >= Len(data) ->
                    Step(t, Return(r, Nil), data, {})
               [] o = "read" /\ r.roff < Len(data) ->
                    Step(t, [r EXCEPT !.sink = Append(@, data[r.roff + 1]), !.roff = @ + 1],
                         data, {})
               [] o = "writeerr" ->
                    /\ r.roff < Len(data)
                    /\ Step(t, Return([r EXCEPT !.roff = @ + 1], Errorf("write to sink")),
                            data, {"sinkfault"})

\* CacheCreate with the bug of returning the error of a failed Create
CacheCreate_ReturnsError(t) ==
    /\ dl[t].pc = "create"
    /\ \E ok \in BOOLEAN :
         IF ok
         THEN /\ dl' = [dl EXCEPT ![t] = [@ EXCEPT !.pc = "svc", !.cw = "open", !.woff = 0,
                                                  !.creates = @ + 1]]
              /\ files' = [files EXCEPT ![Filename(dl[t].req)] =
                                           [exists |-> TRUE, data |-> <<>>]]
         ELSE /\ dl' = [dl EXCEPT ![t] = Return(@, Errorf("create cached file"))]
              /\ UNCHANGED files
    /\ UNCHANGED <<cfgvars, stvars, hdvars, lsvars, ncalls, hist, nfaults>>

\* Cache.ProxyDownload: c.files.Create(filename), and the tee if it succeeds
CacheCreate(t) ==
    /\ dl[t].pc = "create"
    /\ \E ok \in BOOLEAN :
         IF ok
         THEN /\ dl' = [dl EXCEPT ![t] = [@ EXCEPT !.pc = "svc", !.cw = "open", !.woff = 0,
                                                  !.creates = @ + 1]]
              /\ files' = [files EXCEPT ![Filename(dl[t].req)] =
                                           [exists |-> TRUE, data |-> <<>>]]
         ELSE /\ dl' = [dl EXCEPT ![t] = [@ EXCEPT !.pc = "svc"]]
              /\ UNCHANGED files
    /\ UNCHANGED <<cfgvars, stvars, hdvars, lsvars, ncalls, hist, nfaults>>

\* the answers of api.github.com to the tarball request
TarballResponses == {"transport error", "403", "404", "500", "bad gzip", "ok"}

ResponseStatus(resp) ==
    CASE resp = "403" -> 403 [] resp = "404" -> 404 [] resp = "500" -> 500 [] OTHER -> StatusOK

\* the status code of the response the client received, 0 when it received none
StatusOf(resp) == IF resp = "transport error" THEN 0 ELSE ResponseStatus(resp)

\* makeRequest with the bug of wrapping a non-success status like a failed Do
makeRequest_GenericError(resp) ==
    CASE resp = "transport error" -> Errorf("executing request")
      [] ResponseStatus(resp) # StatusOK -> Errorf("executing request")
      [] OTHER -> Nil

\* Service.makeRequest: the error it returns for the client's answer, Nil
\* when it returns the response body
makeRequest(resp) ==
    CASE resp = "transport error" -> Errorf("executing request")
      [] ResponseStatus(resp) # StatusOK -> httpErr(ResponseStatus(resp), "response body")
      [] OTHER -> Nil

\* Service.ProxyDownload up to the copy loop: validRepo, makeRequest,
\* gzip.NewReader and the writers
SvcProxyDownload(t) ==
    /\ dl[t].pc = "svc"
    /\ LET r == [dl[t] EXCEPT !.upcalls = @ + 1]
           q == r.req
           valid == validRepo(cfgRepositories, q.owner, q.repo)
       IN  IF valid # Nil
           THEN Step(t, Return(r, valid), FileOf(t).data, {})
           ELSE \E resp \in TarballResponses :
                  LET r1 == [r EXCEPT !.http = @ + 1, !.status = StatusOf(resp)]
                  IN  CASE makeRequest(resp) # Nil ->
                             Step(t, Return(r1, makeRequest(resp)),
                                  FileOf(t).data, {"upfail"})
                        [] resp = "bad gzip" ->
                             Step(t, Return(r1, Errorf("read gzip")), FileOf(t).data, {"upfail"})
                        [] resp = "ok" ->
                             Step(t, [r1 EXCEPT !.pc = "next", !.ei = 1], FileOf(t).data, {})

\* copy(): r.Next(), the match and w.WriteHeader(hdr)
SvcNext(t) ==
    /\ dl[t].pc = "next"
    /\ LET r == dl[t]
           es == Tarball(r.req)
           data == FileOf(t).data
       IN  IF r.srcerr
           THEN Step(t, [r EXCEPT !.pc = "twclose", !.res = Errorf("reading tar")], data, {})
           ELSE \E rdok \in BOOLEAN :
                  IF ~rdok
                  THEN Step(t, [r EXCEPT !.pc = "twclose", !.res = Errorf("reading tar"),
                                         !.srcerr = TRUE], data, {"bodyfail"})
                  ELSE IF r.ei > Len(es)
                  THEN Step(t, [r EXCEPT !.pc = "twclose", !.res = Nil], data, {})
                  ELSE IF ~Match(r.req, es[r.ei])
                  THEN Step(t, [r EXCEPT !.ei = @ + 1], data, {})
                  ELSE \E o \in TarWriteHeader(r, data, Renamed(r.req, es[r.ei])) :
                         IF o.err
                         THEN Step(t, [o.thr EXCEPT !.pc = "twclose",
                                                    !.res = Errorf("writing header")],
                                   o.fdata, o.faults)
                         ELSE Step(t, [o.thr EXCEPT !.pc = "data"], o.fdata, o.faults)

\* copy(): io.Copy(w, r) of the entry's contents, its result dropped
SvcData(t) ==
    /\ dl[t].pc = "data"
    /\ LET r == dl[t]
           e == Tarball(r.req)[r.ei]
           data == FileOf(t).data
       IN  \E rdok \in BOOLEAN :
             IF rdok
             THEN \E o \in GzWrite(r, data, DatChunk(e)) :
                    Step(t, [o.thr EXCEPT !.pc = "next", !.ei = @ + 1], o.fdata, o.faults)
             ELSE \E o \in GzWrite(r, data, PartChunk(e)) :
                    Step(t, [o.thr EXCEPT !.pc = "next", !.ei = @ + 1, !.short = TRUE,
                                          !.srcerr = TRUE],
                         o.fdata, o.faults \cup {"bodyfail"})

\* the deferred tw.Close() of Service.ProxyDownload, its error dropped
SvcTarClose(t) ==
    /\ dl[t].pc = "twclose"
    /\ \E o \in TarClose(dl[t], FileOf(t).data) :
         Step(t, [o.thr EXCEPT !.pc = "zwclose"], o.fdata, o.faults)

\* the deferred zw.Close(), its error dropped; the call returns what copy()
\* returned, and Cache.ProxyDownload returns that
SvcGzipClose(t) ==
    /\ dl[t].pc = "zwclose"
    /\ \E o \in GzClose(dl[t], FileOf(t).data) :
         Step(t, Return(o.thr, o.thr.res), o.fdata, o.faults)

NextDownload ==
    \E t \in DThreads :
        \/ Call(t)
        \/ CacheOpen(t)
        \/ CacheCopy(t)
        \/ CacheCreate(t)
        \/ SvcProxyDownload(t)
        \/ SvcNext(t)
        \/ SvcData(t)
        \/ SvcTarClose(t)
        \/ SvcGzipClose(t)

----------------------------------------------------------------------------
(* sync.RWMutex, as the Go runtime implements it.  readerCount is kept as    *)
(* the pair (readers, pending): readerCount = readers - pending * 2^30.      *)

RWMutexInit ==
    [w |-> FALSE,        \* the writers' mutex rw.w is held
     pending |-> FALSE,  \* a writer has announced itself (readerCount < 0)
     readers |-> 0,      \* readers that have entered and not left through RUnlock
     readerWait |-> 0,   \* departing readers the writer waits for
     readerSem |-> 0,    \* wake-ups due to blocked readers
     writerSem |-> 0]    \* wake-ups due to the blocked writer

\* RLock: readerCount.Add(1); the caller blocks on readerSem if it is < 0
RLock(m) == [m EXCEPT !.readers = @ + 1]
RLockBlocks(m) == m.pending

\* Lock, once rw.w is acquired: announce the writer, count the readers to wait for
Lock(m) ==
    [m EXCEPT !.w = TRUE, !.pending = TRUE,
              !.readerWait = IF m.readers # 0 THEN @ + m.readers ELSE @]
LockBlocks(m) == m.readers # 0 /\ m.readerWait + m.readers # 0

\* Unlock: fatal "Unlock of unlocked RWMutex" when no writer is announced,
\* else wake one reader per counted reader and release rw.w
UnlockFatal(m) == ~m.pending \/ ~m.w
Unlock(m) ==
    [m EXCEPT !.pending = FALSE, !.readerSem = @ + m.readers, !.w = FALSE]

\* RUnlock: readerCount.Add(-1); fatal when there was no reader; with a writer
\* announced, the last reader it waits for wakes it
RUnlockFatal(m) == m.readers = 0
RUnlock(m) ==
    [m EXCEPT !.readers = @ - 1,
              !.readerWait = IF m.pending THEN @ - 1 ELSE @,
              !.writerSem = IF m.pending /\ m.readerWait - 1 = 0 THEN @ + 1 ELSE @]

----------------------------------------------------------------------------
(* The TTL store: mcache.Cache *)

NoExpiration == -1

\* the expiration the process is configured with, in ticks of the clock
CacheTTL == 2

Expirations == {NoExpiration, CacheTTL}

\* the run ends when the clock reaches MaxTime
MaxTime == 2

\* item.expired(now)
expired(i, t) == IF i.expires = 0 THEN FALSE ELSE t > i.expires

\* the body of Get: (value, ok)
GetItem(its, key, t) ==
    IF key \in DOMAIN its /\ ~expired(its[key], t)
    THEN [value |-> its[key].value, ok |-> TRUE]
    ELSE [value |-> <<>>, ok |-> FALSE]

\* Set: the expiry of an entry stored at time t with duration d
Expires(d, t) == IF d > 0 THEN t + d ELSE 0

\* the body of Set: c.items[key] = item{value, expires}
SetItem(its, key, value, exp) ==
    [k \in DOMAIN its \cup {key} |->
        IF k = key THEN [value |-> value, expires |-> exp] ELSE its[k]]

\* CleanupItems with the bug of sweeping an entry at the instant of its expiry
CleanupItems_AtExpiry(its, t) ==
    [k \in {x \in DOMAIN its : its[x].expires = 0 \/ t < its[x].expires} |-> its[k]]

\* the body of Cleanup: the entries that stay
CleanupItems(its, t) ==
    [k \in {x \in DOMAIN its : ~expired(its[x], t)} |-> its[k]]

----------------------------------------------------------------------------
(* ListVersions calls *)

\* handler goroutines that may run ListVersions concurrently
LThreads == {"h1", "h2"}

\* number of ListVersions calls made in one run
MaxListCalls == 3

\* pages the upstream's tag listing can have
MaxPages == 3

tagsPerPage == 100

\* fmt.Sprintf("%s-%s-%s", owner, repo, module)
Key(q) == q.owner \o "-" \o q.repo \o "-" \o q.module

\* the tag names of the upstream repository, in the order the API lists
\* them: the pages repeat them
UpstreamTags ==
    << "other/1.0.0", "networking/3.0.0", "network/2.0.0", "network/1.0.0",
       "v/network/9.0.0", "network/2.0.0", "network/" >>

TagPage(n) == [i \in 1..n |-> UpstreamTags[((i - 1) % Len(UpstreamTags)) + 1]]

\* the numbers of tags a page may come back with
PageLens == {0, 2, tagsPerPage - 1, tagsPerPage}

\* strings.HasPrefix(s, prefix)
HasPrefix(s, prefix) ==
    Len(s) >= Len(prefix) /\ SubSeq(s, 1, Len(prefix)) = prefix

\* strings.Contains(s, substr)
Contains(s, substr) ==
    \E i \in 1..(Len(s) - Len(substr) + 1) : SubSeq(s, i, i + Len(substr) - 1) = substr

\* strings.TrimPrefix(s, prefix)
TrimPrefix(s, prefix) ==
    IF HasPrefix(s, prefix) THEN SubSeq(s, Len(prefix) + 1, Len(s)) ELSE s

\* FilterTags with the bug of matching the prefix anywhere in the name
FilterTags_Contains(tags, prefix) ==
    LET Keep(name) == Contains(name, prefix)
        kept == SelectSeq(tags, Keep)
    IN  [i \in 1..Len(kept) |-> TrimPrefix(kept[i], prefix)]

\* the loop over a page's tags: the names with the prefix, without it
FilterTags(tags, prefix) ==
    LET Keep(name) == HasPrefix(name, prefix)
        kept == SelectSeq(tags, Keep)
    IN  [i \in 1..Len(kept) |-> TrimPrefix(kept[i], prefix)]

\* the return of a Cache.ListVersions call, as the next call of the goroutine
\* remembers it: "ok" with the versions and the expiry Set computed, or "err"
NoPrev == [res |-> "none", out |-> <<>>, expires |-> 0]

Returned(r) ==
    IF cacheEnabled /\ r.pc = "done"
    THEN IF r.res = Nil THEN [res |-> "ok", out |-> r.out, expires |-> r.expires]
                        ELSE [res |-> "err", out |-> <<>>, expires |-> 0]
    ELSE NoPrev

ListIdle ==
    [pc |-> "idle", req |-> NoReq,
     page |-> 0,          \* Service.ListVersions: page
     versions |-> <<>>,   \* Service.ListVersions: versions
     pages |-> <<>>,      \* the pages requested, in order
     lens |-> <<>>,       \* the number of tags of each page received
     expires |-> 0,       \* Set: expires
     res |-> Nil,         \* the error the call returns
     out |-> <<>>,        \* the versions the call returns
     hit |-> FALSE,       \* the call returned the TTL store's entry
     http |-> 0,          \* HTTP requests the call has issued
     status |-> 0,        \* status code of the last response
     ctxDone |-> FALSE,   \* the caller's ctx is cancelled or past its deadline
     upcalls |-> 0,       \* calls of the wrapped Repository
     prev |-> NoPrev]     \* what the goroutine's previous Cache.ListVersions returned

InitList ==
    /\ items = << >>
    /\ mu = RWMutexInit
    /\ now = 0
    /\ lv = [h \in LThreads |-> ListIdle]
    /\ cl \in {[pc |-> p, count |-> 0] : p \in {"off", "sleep"}}
    /\ nlist = 0
    /\ crashed = FALSE

\* a step of a handler goroutine that leaves the store alone
LStep(h, r) ==
    /\ lv' = [lv EXCEPT ![h] = r]
    /\ UNCHANGED <<cfgvars, stvars, hdvars, dlvars, items, mu, now, cl, nlist, crashed>>

\* a step of a handler goroutine on the mutex
LockStep(h, r, m) ==
    /\ lv' = [lv EXCEPT ![h] = r]
    /\ mu' = m
    /\ UNCHANGED <<cfgvars, stvars, hdvars, dlvars, items, now, cl, nlist, crashed>>

\* the runtime's fatal error: the process dies in the goroutine's call
Fatal(h) ==
    /\ lv' = [lv EXCEPT ![h] = [@ EXCEPT !.pc = "fatal"]]
    /\ crashed' = TRUE
    /\ UNCHANGED <<cfgvars, stvars, hdvars, dlvars, items, mu, now, cl, nlist>>

\* the call returns (versions, err)
LReturn(r, versions, err) == [r EXCEPT !.pc = "done", !.out = versions, !.res = err]

\* the wrapped Repository returns to Cache.ListVersions, or, without the
\* Cache, to the Handler
SvcReturn(r, versions, err) ==
    IF cacheEnabled /\ err = Nil
    THEN [r EXCEPT !.pc = "set", !.out = versions]
    ELSE LReturn(r, versions, err)

\* time passes
Tick ==
    /\ ~crashed
    /\ now < MaxTime
    /\ now' = now + 1
    /\ UNCHANGED <<cfgvars, stvars, hdvars, dlvars, items, mu, lv, cl, nlist, crashed>>

\* the Handler calls its Repository's ListVersions for the run's coordinate
ListCall(h) ==
    /\ ~crashed
    /\ lv[h].pc \in {"idle", "done"}
    /\ nlist < MaxListCalls
    /\ lv' = [lv EXCEPT ![h] = [ListIdle EXCEPT !.pc = IF cacheEnabled THEN "get" ELSE "svc",
                                                !.req = target,
                                                !.prev = Returned(lv[h])]]
    /\ nlist' = nlist + 1
    /\ UNCHANGED <<cfgvars, stvars, hdvars, dlvars, items, mu, now, cl, crashed>>

\* Cache.ListVersions -> c.store.Get(key), a step of it: c.mu.RLock(), which
\* blocks while a writer is announced; the wake-up of the blocked reader; the
\* lookup with the deferred c.mu.Unlock(), after which Cache.ListVersions
\* returns the entry or goes on to the wrapped Repository
Get(h) ==
    /\ ~crashed
    /\ lv[h].pc \in {"get", "get_wait", "get_locked"}
    /\ CASE lv[h].pc = "get" ->
              LockStep(h, [lv[h] EXCEPT !.pc = IF RLockBlocks(mu) THEN "get_wait"
                                                ELSE "get_locked"],
                       RLock(mu))
         [] lv[h].pc = "get_wait" ->
              /\ mu.readerSem > 0
              /\ LockStep(h, [lv[h] EXCEPT !.pc = "get_locked"],
                          [mu EXCEPT !.readerSem = @ - 1])
         [] lv[h].pc = "get_locked" ->
              LET got == GetItem(items, Key(lv[h].req), now)
              IN  IF UnlockFatal(mu) THEN Fatal(h)
                  ELSE LockStep(h, IF got.ok
                                   THEN [LReturn(lv[h], got.value, Nil) EXCEPT !.hit = TRUE]
                                   ELSE [lv[h] EXCEPT !.pc = "svc"],
                                Unlock(mu))

\* Service.ListVersions up to the loop: validRepo
SvcListVersions(h) ==
    /\ ~crashed
    /\ lv[h].pc = "svc"
    /\ LET r == [lv[h] EXCEPT !.upcalls = @ + 1]
           valid == validRepo(cfgRepositories, r.req.owner, r.req.repo)
       IN  IF valid # Nil
           THEN LStep(h, SvcReturn(r, <<>>, valid))
           ELSE LStep(h, [r EXCEPT !.pc = "page", !.page = 1, !.versions = <<>>])

\* the answers of api.github.com to a request for a page of tags; the last
\* page the listing can have is short
TagResponses(page) ==
    { [kind |-> k, len |-> 0] : k \in {"transport error", "403", "404", "500", "bad json"} }
    \cup { [kind |-> "ok", len |-> n] :
             n \in { x \in PageLens : page >= MaxPages => x < tagsPerPage } }

\* SvcPage with the bug of stopping at a full page too
SvcPage_StopsOnFull(h) ==
    /\ ~crashed
    /\ lv[h].pc = "page"
    /\ \E resp \in TagResponses(lv[h].page) :
         LET r == [lv[h] EXCEPT !.http = @ + 1, !.pages = Append(@, lv[h].page),
                                !.status = StatusOf(resp.kind)]
         IN  CASE makeRequest(resp.kind) # Nil ->
                    LStep(h, SvcReturn(r, <<>>, makeRequest(resp.kind)))
               [] resp.kind = "bad json" ->
                    LStep(h, SvcReturn(r, <<>>, Errorf("decoding response")))
               [] resp.kind = "ok" ->
                    LET tags == TagPage(resp.len)
                        vs == r.versions \o FilterTags(tags, r.req.module \o "/")
                        r1 == [r EXCEPT !.versions = vs, !.lens = Append(@, Len(tags))]
                    IN  IF Len(tags) <= tagsPerPage
                        THEN LStep(h, SvcReturn(r1, vs, Nil))
                        ELSE LStep(h, [r1 EXCEPT !.page = @ + 1])

\* Service.ListVersions: one round of the loop
SvcPage(h) ==
    /\ ~crashed
    /\ lv[h].pc = "page"
    /\ \E resp \in TagResponses(lv[h].page) :
         LET r == [lv[h] EXCEPT !.http = @ + 1, !.pages = Append(@, lv[h].page),
                                !.status = StatusOf(resp.kind)]
         IN  CASE makeRequest(resp.kind) # Nil ->
                    LStep(h, SvcReturn(r, <<>>, makeRequest(resp.kind)))
               [] resp.kind = "bad json" ->
                    LStep(h, SvcReturn(r, <<>>, Errorf("decoding response")))
               [] resp.kind = "ok" ->
                    LET tags == TagPage(resp.len)
                        vs == r.versions \o FilterTags(tags, r.req.module \o "/")
                        r1 == [r EXCEPT !.versions = vs, !.lens = Append(@, Len(tags))]
                    IN  IF Len(tags) < tagsPerPage
                        THEN LStep(h, SvcReturn(r1, vs, Nil))
                        ELSE LStep(h, [r1 EXCEPT !.page = @ + 1])

\* Cache.ListVersions -> c.store.Set(key, v), a step of it: the expiry from
\* the store's default; c.mu.Lock(), which waits for rw.w and then for the
\* readers counted; the wake-up by the last of these readers; the store with
\* the deferred c.mu.Unlock(), after which Cache.ListVersions returns v
Set(h) ==
    /\ ~crashed
    /\ lv[h].pc \in {"set", "set_lock", "set_wait", "set_locked"}
    /\ CASE lv[h].pc = "set" ->
              LStep(h, [lv[h] EXCEPT !.pc = "set_lock",
                                     !.expires = Expires(cfgExpiration, now)])
         [] lv[h].pc = "set_lock" ->
              /\ ~mu.w
              /\ LockStep(h, [lv[h] EXCEPT !.pc = IF LockBlocks(mu) THEN "set_wait"
                                                   ELSE "set_locked"],
                          Lock(mu))
         [] lv[h].pc = "set_wait" ->
              /\ mu.writerSem > 0
              /\ LockStep(h, [lv[h] EXCEPT !.pc = "set_locked"],
                          [mu EXCEPT !.writerSem = @ - 1])
         [] lv[h].pc = "set_locked" ->
              IF UnlockFatal(mu) THEN Fatal(h)
              ELSE /\ lv' = [lv EXCEPT ![h] = LReturn(@, @.out, Nil)]
                   /\ items' = SetItem(items, Key(lv[h].req), lv[h].out, lv[h].expires)
                   /\ mu' = Unlock(mu)
                   /\ UNCHANGED <<cfgvars, stvars, hdvars, dlvars, now, cl, nlist, crashed>>

\* loop(): the ticker fires and cleanup() is called
loopTick ==
    /\ ~crashed
    /\ cl.pc = "sleep"
    /\ cl' = [cl EXCEPT !.pc = "lock"]
    /\ UNCHANGED <<cfgvars, stvars, hdvars, dlvars, items, mu, now, lv, nlist, crashed>>

\* Cleanup, a step of it: c.mu.Lock(), which waits for rw.w and then for the
\* readers counted; the wake-up by the last of these readers; the sweep with
\* the deferred c.mu.Unlock()
Cleanup ==
    /\ ~crashed
    /\ cl.pc \in {"lock", "wait", "locked"}
    /\ CASE cl.pc = "lock" ->
              /\ ~mu.w
              /\ cl' = [cl EXCEPT !.pc = IF LockBlocks(mu) THEN "wait" ELSE "locked"]
              /\ mu' = Lock(mu)
              /\ UNCHANGED <<cfgvars, stvars, hdvars, dlvars, items, now, lv, nlist, crashed>>
         [] cl.pc = "wait" ->
              /\ mu.writerSem > 0
              /\ cl' = [cl EXCEPT !.pc = "locked"]
              /\ mu' = [mu EXCEPT !.writerSem = @ - 1]
              /\ UNCHANGED <<cfgvars, stvars, hdvars, dlvars, items, now, lv, nlist, crashed>>
         [] cl.pc = "locked" ->
              IF UnlockFatal(mu)
              THEN /\ crashed' = TRUE
                   /\ UNCHANGED <<cfgvars, stvars, hdvars, dlvars, items, mu, now, lv, cl, nlist>>
              ELSE /\ items' = CleanupItems(items, now)
                   /\ cl' = [pc |-> "sleep",
                             count |-> Cardinality(DOMAIN items)
                                         - Cardinality(DOMAIN CleanupItems(items, now))]
                   /\ mu' = Unlock(mu)
                   /\ UNCHANGED <<cfgvars, stvars, hdvars, dlvars, now, lv, nlist, crashed>>

NextList ==
    \/ Tick
    \/ loopTick
    \/ Cleanup
    \/ \E h \in LThreads :
        \/ ListCall(h)
        \/ Get(h)
        \/ SvcListVersions(h)
        \/ SvcPage(h)
        \/ Set(h)

----------------------------------------------------------------------------
(* The TTL store called directly, and StartCleanupLoop *)

\* goroutines that call the store
SThreads == {"g1", "g2"}

\* number of calls of the store made in one run
MaxStoreCalls == 3

Methods == {"Get", "Set", "Delete", "Count", "Cleanup", "Flush"}
Keys == {"k", "l"}
Values == {"v", "w"}

\* the variadic d of Set: none, or one duration
Durations == {<<>>, <<1>>, <<NoExpiration>>}

NoResult == [value |-> <<>>, ok |-> FALSE, count |-> 0]

NoCall ==
    [pc |-> "idle", op |-> "", key |-> "", value |-> <<>>, d |-> <<>>, expires |-> 0,
     out |-> NoResult]

InitStore ==
    /\ st = [g \in SThreads |-> NoCall]
    /\ nstore = 0
    /\ caller = "init"
    /\ wg = 0
    /\ sc = FALSE

\* a step of a goroutine's call: its state, the mutex and the items after it
StoreStep(g, r, m, its) ==
    /\ st' = [st EXCEPT ![g] = r]
    /\ mu' = m
    /\ items' = its
    /\ UNCHANGED <<cfgvars, dlvars, hdvars, now, lv, cl, nlist, crashed, nstore, caller, wg, sc>>

\* the runtime's fatal error in a goroutine's call
StoreFatal(g) ==
    /\ st' = [st EXCEPT ![g] = [@ EXCEPT !.pc = "fatal"]]
    /\ crashed' = TRUE
    /\ UNCHANGED <<cfgvars, dlvars, hdvars, items, mu, now, lv, cl, nlist, nstore, caller, wg, sc>>

\* the call returns
StoreReturn(r, out) == [r EXCEPT !.pc = "done", !.out = out]

\* a goroutine calls a method of the store, with a key of keys and the
\* variadic duration one of durations; Set works out the expiry before it
\* takes the lock
StoreCallOf(g, keys, durations) ==
    /\ ~crashed
    /\ st[g].pc \in {"idle", "done"}
    /\ nstore < MaxStoreCalls
    /\ \E op \in Methods, key \in keys, value \in Values, d \in durations :
         LET expiry == IF Len(d) > 0 THEN d[1] ELSE cfgExpiration
         IN  st' = [st EXCEPT ![g] =
                      [NoCall EXCEPT
                         !.pc = IF op \in {"Get", "Count"} THEN "rlock" ELSE "lock",
                         !.op = op,
                         !.key = IF op \in {"Get", "Set", "Delete"} THEN key ELSE "",
                         !.value = IF op = "Set" THEN value ELSE <<>>,
                         !.d = IF op = "Set" THEN d ELSE <<>>,
                         !.expires = IF op = "Set" THEN Expires(expiry, now) ELSE 0]]
    /\ nstore' = nstore + 1
    /\ UNCHANGED <<cfgvars, dlvars, hdvars, items, mu, now, lv, cl, nlist, crashed, caller, wg, sc>>

\* the calls of concurrent goroutines: one key, the default expiration or a
\* duration of one tick
StoreCall(g) == StoreCallOf(g, {"k"}, {<<>>, <<1>>})

\* c.mu.RLock() of Get and of Count, which blocks while a writer is
\* announced, and the wake-up of the blocked reader
StoreRLock(g) ==
    /\ ~crashed
    /\ st[g].pc \in {"rlock", "rwait"}
    /\ CASE st[g].pc = "rlock" ->
              StoreStep(g, [st[g] EXCEPT !.pc = IF RLockBlocks(mu) THEN "rwait" ELSE "rlocked"],
                        RLock(mu), items)
         [] st[g].pc = "rwait" ->
              /\ mu.readerSem > 0
              /\ StoreStep(g, [st[g] EXCEPT !.pc = "rlocked"],
                           [mu EXCEPT !.readerSem = @ - 1], items)

\* c.mu.Lock() of Set, Delete, Cleanup and Flush, which waits for rw.w and
\* then for the readers counted, and the wake-up by the last of these readers
StoreLock(g) ==
    /\ ~crashed
    /\ st[g].pc \in {"lock", "wwait"}
    /\ CASE st[g].pc = "lock" ->
              /\ ~mu.w
              /\ StoreStep(g, [st[g] EXCEPT !.pc = IF LockBlocks(mu) THEN "wwait" ELSE "wlocked"],
                           Lock(mu), items)
         [] st[g].pc = "wwait" ->
              /\ mu.writerSem > 0
              /\ StoreStep(g, [st[g] EXCEPT !.pc = "wlocked"],
                           [mu EXCEPT !.writerSem = @ - 1], items)

\* StoreGet with the bug of dropping the entry it finds expired
StoreGet_EvictsExpired(g) ==
    /\ ~crashed
    /\ st[g].pc = "rlocked" /\ st[g].op = "Get"
    /\ LET got == GetItem(items, st[g].key, now)
       IN  IF UnlockFatal(mu) THEN StoreFatal(g)
           ELSE StoreStep(g, StoreReturn(st[g], [NoResult EXCEPT !.value = got.value, !.ok = got.ok]),
                          Unlock(mu),
                          IF got.ok THEN items
                          ELSE [k \in DOMAIN items \ {st[g].key} |-> items[k]])

\* Cache.Get under the read lock: the lookup, with the deferred c.mu.Unlock()
StoreGet(g) ==
    /\ ~crashed
    /\ st[g].pc = "rlocked" /\ st[g].op = "Get"
    /\ LET got == GetItem(items, st[g].key, now)
       IN  IF UnlockFatal(mu) THEN StoreFatal(g)
           ELSE StoreStep(g, StoreReturn(st[g], [NoResult EXCEPT !.value = got.value, !.ok = got.ok]),
                          Unlock(mu), items)

\* Cache.Count under the read lock, with the deferred c.mu.RUnlock()
Count(g) ==
    /\ ~crashed
    /\ st[g].pc = "rlocked" /\ st[g].op = "Count"
    /\ IF RUnlockFatal(mu) THEN StoreFatal(g)
       ELSE StoreStep(g, StoreReturn(st[g], [NoResult EXCEPT !.count = Cardinality(DOMAIN items)]),
                      RUnlock(mu), items)

\* Cache.Set under the lock, with the deferred c.mu.Unlock()
StoreSet(g) ==
    /\ ~crashed
    /\ st[g].pc = "wlocked" /\ st[g].op = "Set"
    /\ IF UnlockFatal(mu) THEN StoreFatal(g)
       ELSE StoreStep(g, StoreReturn(st[g], NoResult), Unlock(mu),
                      SetItem(items, st[g].key, st[g].value, st[g].expires))

\* Cache.Delete under the lock, with the deferred c.mu.Unlock()
Delete(g) ==
    /\ ~crashed
    /\ st[g].pc = "wlocked" /\ st[g].op = "Delete"
    /\ IF UnlockFatal(mu) THEN StoreFatal(g)
       ELSE StoreStep(g, StoreReturn(st[g], [NoResult EXCEPT !.ok = st[g].key \in DOMAIN items]),
                      Unlock(mu),
                      [k \in DOMAIN items \ {st[g].key} |-> items[k]])

\* Cache.Cleanup under the lock, called by a goroutine itself
StoreCleanup(g) ==
    /\ ~crashed
    /\ st[g].pc = "wlocked" /\ st[g].op = "Cleanup"
    /\ IF UnlockFatal(mu) THEN StoreFatal(g)
       ELSE StoreStep(g, StoreReturn(st[g],
                             [NoResult EXCEPT !.count = Cardinality(DOMAIN items)
                                                - Cardinality(DOMAIN CleanupItems(items, now))]),
                      Unlock(mu), CleanupItems(items, now))

\* Cache.Flush under the lock, with the deferred c.mu.Unlock()
Flush(g) ==
    /\ ~crashed
    /\ st[g].pc = "wlocked" /\ st[g].op = "Flush"
    /\ IF UnlockFatal(mu) THEN StoreFatal(g)
       ELSE StoreStep(g, StoreReturn(st[g], NoResult), Unlock(mu), << >>)

\* StartCleanupLoop: the WaitGroup, the channel and go loop(...); the
\* goroutine has not run yet when it returns
StartCleanupLoop ==
    /\ ~crashed
    /\ caller = "init"
    /\ cl.pc = "off"
    /\ caller' = "started"
    /\ cl' = [cl EXCEPT !.pc = "new"]
    /\ UNCHANGED <<cfgvars, dlvars, hdvars, items, mu, now, lv, nlist, crashed, st, nstore, wg, sc>>

\* loop() up to the select, and its return: time.NewTicker(d) and wg.Add(1);
\* at the select with stop closed, the return with the deferred wg.Done()
loop ==
    /\ ~crashed
    /\ cl.pc = "new" \/ (cl.pc = "sleep" /\ sc)
    /\ IF cl.pc = "new"
       THEN /\ wg' = wg + 1
            /\ cl' = [cl EXCEPT !.pc = "sleep"]
       ELSE /\ wg' = wg - 1
            /\ cl' = [cl EXCEPT !.pc = "returned"]
    /\ UNCHANGED <<cfgvars, dlvars, hdvars, items, mu, now, lv, nlist, crashed, st, nstore, caller, sc>>

\* the stop function: close(sc), then wg.Wait(), which returns when the
\* counter is zero
stop ==
    /\ ~crashed
    /\ caller \in {"started", "wait"}
    /\ IF caller = "started"
       THEN /\ sc' = TRUE
            /\ caller' = "wait"
       ELSE /\ wg = 0
            /\ caller' = "stopped"
            /\ sc' = sc
    /\ UNCHANGED <<cfgvars, dlvars, hdvars, items, mu, now, lv, cl, nlist, crashed, st, nstore, wg>>

NextStore ==
    \/ Tick
    \/ StartCleanupLoop
    \/ loop
    \/ loopTick
    \/ Cleanup
    \/ stop
    \/ \E g \in SThreads :
        \/ StoreCall(g)
        \/ StoreRLock(g)
        \/ StoreLock(g)
        \/ StoreGet(g)
        \/ Count(g)
        \/ StoreSet(g)
        \/ Delete(g)
        \/ StoreCleanup(g)
        \/ Flush(g)

----------------------------------------------------------------------------
(* The Handler's download tokens: encodeToken and decodeToken *)

\* ticks of the Handler's clock in a second: time.Time is finer than a second
TicksPerSecond == 2

\* the last tick of the clock
MaxClock == 3

\* Config.TokenExpiration, in seconds
TokenExpiration == 1

\* h.cipher.NonceSize() and the tag Seal appends, of the GCM of NewHTTP
NonceSize == 12
TagSize == 16

\* bytes of the JSON document of a token
JsonLen == 2

\* bearer credentials: a plain one, and one that is not valid UTF-8
Credentials == {"ghp_A", "ghp_<ff>"}

\* Config.ProxySecret, and the secret of another deployment
ProxySecret == "secret"
Secrets == {ProxySecret, "foreign"}

\* the nonces rand.Read may give
Nonces == {1, 2}

\* json.Marshal of a string and json.Unmarshal of it again: bytes that are
\* not valid UTF-8 come back as U+FFFD
JsonString(c) == IF c = "ghp_<ff>" THEN "ghp_<fffd>" ELSE c

\* json.Marshal(&encodedToken{Token: token, EncodedAt: at}), as the document
\* json.Unmarshal reads back
Marshal(token, at) == [token |-> JsonString(token), encoded_at |-> at]

NoDoc == [token |-> "", encoded_at |-> 0]

\* bytes: those of a nonce, those Seal gives, and any other byte
NonceByte(n, i) == [k |-> "nonce", n |-> n, i |-> i]
SealByte(key, n, doc, i) == [k |-> "sealed", key |-> key, n |-> n, doc |-> doc, i |-> i]
JunkByte == [k |-> "junk"]

NonceBytes(n) == [i \in 1..NonceSize |-> NonceByte(n, i)]

\* cipher.Seal(dst, nonce, plaintext, nil) without dst: ciphertext and tag
Seal(key, n, doc) == [i \in 1..(JsonLen + TagSize) |-> SealByte(key, n, doc, i)]

\* cipher.Open(nil, nonce, ciphertext, nil): the plaintext, when the
\* ciphertext is what Seal gave for it under the key and the nonce
Open(key, nonce, ciphertext) ==
    IF /\ Len(ciphertext) = JsonLen + TagSize
       /\ ciphertext[1].k = "sealed"
       /\ ciphertext = Seal(key, ciphertext[1].n, ciphertext[1].doc)
       /\ nonce = NonceBytes(ciphertext[1].n)
    THEN [ok |-> TRUE, doc |-> ciphertext[1].doc]
    ELSE [ok |-> FALSE, doc |-> NoDoc]

\* a text: the hexadecimal digits of bytes, then more characters: none, a
\* single digit, or two characters that are no digits
Text(bytes, extra) == [bytes |-> bytes, extra |-> extra]

\* hex.EncodeToString(b)
EncodeToString(b) == Text(b, "")

\* len(encoded)
TextLen(text) == 2 * Len(text.bytes) + Len(text.extra)

\* time.Time.Unix(): whole seconds
Unix(t) == t \div TicksPerSecond

\* sentinel errors
errInvalidToken == "invalid token"
errTokenExpired == "token expired"

\* outcomes of encodeToken and decodeToken: a string, an error that wraps
\* the error is, or a run-time panic
Ok(value) == [kind |-> "ok", value |-> value, msg |-> "", is |-> ""]
Wrap(msg, err) == [kind |-> "error", value |-> "", msg |-> msg, is |-> err]
Panic(msg) == [kind |-> "panic", value |-> "", msg |-> msg, is |-> ""]
None == [kind |-> "none", value |-> "", msg |-> "", is |-> ""]

\* func (h *Handler) encodeToken(token string) (string, error), with the
\* nonce rand.Read gave
encodeToken(token, t, n) ==
    EncodeToString(NonceBytes(n) \o Seal(ProxySecret, n, Marshal(token, Unix(t))))

\* func (h *Handler) decodeToken(encoded string) (string, error) at time t.
\* Only documents of Marshal are sealed under the ProxySecret, so that
\* json.Unmarshal does not fail on what Open returns.
decodeToken(encoded, t) ==
    IF encoded.extra # ""
    THEN Wrap("decoding token string", "encoding/hex")
    ELSE IF TextLen(encoded) < NonceSize
    THEN Wrap("token is too short", errInvalidToken)
    ELSE IF Len(encoded.bytes) < NonceSize
    THEN Panic("slice bounds out of range")
    ELSE LET nonce == SubSeq(encoded.bytes, 1, NonceSize)
             ciphertext == SubSeq(encoded.bytes, NonceSize + 1, Len(encoded.bytes))
             b == Open(ProxySecret, nonce, ciphertext)
             validUntil == (b.doc.encoded_at + TokenExpiration) * TicksPerSecond
         IN  IF ~b.ok
             THEN Wrap("decoding token", "cipher: message authentication failed")
             ELSE IF ~(t < validUntil)
             THEN Wrap("valid until", errTokenExpired)
             ELSE Ok(b.doc.token)

NoText == Text(<<>>, "")

\* what DownloadURL issued: the text, and the credential and the time of it
NoIssued == [text |-> NoText, token |-> "", at |-> 0]

\* the context of a request: the value under tokenContextKey, "" when the
\* context has none
Background == [token |-> ""]

\* auth.WithToken(ctx, token)
WithToken(ctx, token) == [ctx EXCEPT !.token = token]

\* a GetToken that prefers the static credential
GetToken_StaticFirst(ctx, s) == IF s # "" THEN s ELSE ctx.token

\* auth.GetToken(ctx, s)
GetToken(ctx, s) == IF ctx.token # "" THEN ctx.token ELSE s

\* the GetToken of package github that makeRequest calls: the credential of
\* the call's context if it has one, otherwise the static one
githubGetToken(ctx, s) == GetToken(ctx, s)

\* strings.ToLower of the first seven characters of a header
ToLower(s) == IF s \in {"Bearer ", "BEARER "} THEN "bearer " ELSE s

\* strings.TrimSpace
RECURSIVE TrimSpace(_)
TrimSpace(s) ==
    IF s = "" THEN s
    ELSE IF SubSeq(s, 1, 1) = " " THEN TrimSpace(SubSeq(s, 2, Len(s)))
    ELSE IF SubSeq(s, Len(s), Len(s)) = " " THEN TrimSpace(SubSeq(s, 1, Len(s) - 1))
    ELSE s

\* auth.TokenMiddleware: the context the next handler gets for a request
\* with this Authorization header
TokenMiddleware(header) ==
    IF Len(header) >= 7 /\ ToLower(SubSeq(header, 1, 7)) = "bearer "
    THEN LET token == TrimSpace(SubSeq(header, 8, Len(header)))
         IN  IF token # "" THEN WithToken(Background, token) ELSE Background
    ELSE Background

\* Authorization headers of requests, raw, with the bearer credential each
\* carries: none, a bearer credential, one in another spelling, another scheme
AuthorizationHeaders ==
    {[raw |-> "", bearer |-> ""],
     [raw |-> "Bearer ghp_A", bearer |-> "ghp_A"],
     [raw |-> "BEARER  ghp_B ", bearer |-> "ghp_B"],
     [raw |-> "Basic ghp_A", bearer |-> ""]}

\* values of github.Config.Token
StaticTokens == {"", "ghs_static"}

\* makeRequest: the Authorization header of the request it sends, "" when
\* it adds none
Authorization(ctx) ==
    LET token == githubGetToken(ctx, cfgToken)
    IN  IF token # "" THEN "Bearer " \o token ELSE ""

\* what Handler.ProxyDownload did for a request with this Authorization
\* header: whether it called h.repo.ProxyDownload, the upstream request
\* makeRequest sent in that call, and the status code the Handler itself
\* answered with (0: it did not answer)
NoRequest(header) ==
    [called |-> FALSE, sent |-> FALSE, authorization |-> "", header |-> header, code |-> 0]

\* the token did not decode: respErr(w, err) and return; a panic ends the
\* request without an answer
Rejected(out, header) ==
    [NoRequest(header) EXCEPT !.code = IF out.kind = "panic" THEN 0 ELSE respErr(out)]

\* h.repo.ProxyDownload is called and its validRepo fails
NotAllowed(header) == [NoRequest(header) EXCEPT !.called = TRUE]

\* h.repo.ProxyDownload is called and its makeRequest sends the request
Request(ctx, header) ==
    [NoRequest(header) EXCEPT !.called = TRUE, !.sent = TRUE,
                              !.authorization = Authorization(ctx)]

\* the URL parameters of the registry's routes
\* /v1/modules/:namespace/:name/:system/versions and .../:version/proxy,
\* as a client asks for the Archive Request q
Params(q) ==
    [namespace |-> q.repo, name |-> q.module, system |-> q.owner, version |-> q.version]

NoParams == [namespace |-> "", name |-> "", system |-> "", version |-> ""]

\* Handler.ListVersions of the older Handler: the parameters in the URL's order
ListVersionsArgs_NamespaceFirst(p) ==
    [owner |-> p.namespace, repo |-> p.name, module |-> p.system, version |-> ""]

\* h.repo.ListVersions(ctx, system, namespace, name): what the Repository
\* gets as (owner, repo, module)
ListVersionsArgs(p) ==
    [owner |-> p.system, repo |-> p.namespace, module |-> p.name, version |-> ""]

\* h.repo.ProxyDownload(ctx, system, namespace, name, version, w)
ProxyDownloadArgs(p) ==
    [owner |-> p.system, repo |-> p.namespace, module |-> p.name, version |-> p.version]

\* newListVersionsResponse(versions): the document the Encoder writes
newListVersionsResponse(versions) ==
    [modules |-> << [versions |-> [n \in 1..Len(versions) |-> [version |-> versions[n]]]] >>]

\* no request in progress: pc is "idle", then "called" while the Repository
\* runs on goroutine g, then "responded"; code is the status code the client
\* gets and json what the Encoder wrote
NoResponse ==
    [pc |-> "idle", route |-> "", params |-> NoParams, g |-> "", code |-> 0, json |-> <<>>]

InitHandler ==
    /\ rw = NoResponse
    /\ hnow = 0
    /\ issued = NoIssued
    /\ dec = [out |-> None, text |-> NoText]
    /\ up = NoRequest([raw |-> "", bearer |-> ""])

\* the Handler's clock advances
HandlerTick ==
    /\ hnow < MaxClock
    /\ hnow' = hnow + 1
    /\ UNCHANGED <<cfgvars, stvars, dlvars, lsvars, issued, dec, up, rw>>

\* Handler.DownloadURL for a request with a bearer credential: the token of
\* the download URL
DownloadURL ==
    /\ \E token \in Credentials, n \in Nonces :
         issued' = [text |-> encodeToken(token, hnow, n), token |-> token, at |-> hnow]
    /\ UNCHANGED <<cfgvars, stvars, dlvars, lsvars, hnow, dec, up, rw>>

\* lengths a client may cut a token to
CutLens(b) == {0, 6, NonceSize - 1, NonceSize, Len(b) - 1} \cap 0..Len(b)

\* the texts a client may present as the token parameter: the token issued,
\* cut, lengthened or with a byte changed; a token of another deployment;
\* the nonce of one token before the ciphertext of another; anything else
Presented ==
    LET b == issued.text.bytes
    IN  {issued.text, Text(b, "f"), Text(b, "zz")}
        \cup {Text(SubSeq(b, 1, k), "") : k \in CutLens(b)}
        \cup {Text([b EXCEPT ![i] = JunkByte], "") : i \in {1, NonceSize + 1, Len(b)} \cap 1..Len(b)}
        \cup {Text(NonceBytes(n) \o Seal("foreign", n, Marshal(issued.token, Unix(hnow))), "") :
                n \in Nonces}
        \cup {Text(NonceBytes(n) \o SubSeq(b, NonceSize + 1, Len(b)), "") : n \in Nonces}
        \cup {Text([i \in 1..(NonceSize + TagSize) |-> JunkByte], "")}

\* Handler.ProxyDownload behind the TokenMiddleware, the Repository being
\* the Service: the token parameter, when it is not empty, is decoded and
\* put in the context, and the Service's makeRequest builds the upstream
\* request, unless the repository is not allowed
ProxyDownload ==
    /\ ~cacheEnabled
    /\ \E header \in AuthorizationHeaders, token \in Presented :
         LET ctx == TokenMiddleware(header.raw)
             out == decodeToken(token, hnow)
         IN  IF token # NoText
             THEN /\ dec' = [out |-> out, text |-> token]
                  /\ up' = IF out.kind # "ok" THEN Rejected(out, header)
                           ELSE IF validRepo(cfgRepositories, target.owner, target.repo) = Nil
                           THEN Request(WithToken(ctx, out.value), header)
                           ELSE NotAllowed(header)
             ELSE /\ dec' = [out |-> None, text |-> NoText]
                  /\ up' = IF validRepo(cfgRepositories, target.owner, target.repo) = Nil
                           THEN Request(ctx, header)
                           ELSE NotAllowed(header)
    /\ UNCHANGED <<cfgvars, stvars, dlvars, lsvars, hnow, issued, rw>>

NextToken ==
    \/ HandlerTick
    \/ DownloadURL
    \/ ProxyDownload

----------------------------------------------------------------------------
(* Specifications *)

InitConfig ==
    /\ cfgToken \in StaticTokens
    /\ cfgRepositories \in AllowLists
    /\ cacheEnabled \in BOOLEAN
    /\ target \in Requests
    /\ cfgExpiration \in Expirations

InitAll == InitConfig /\ InitArchive /\ InitList /\ InitHandler /\ InitStore

\* without a static credential
Init == InitAll /\ cfgToken = ""

\* the archive side alone: ProxyDownload calls
InitDownload == Init /\ cfgExpiration = CacheTTL /\ cl.pc = "off"

SpecDownload == InitDownload /\ [][NextDownload]_vars

\* the version-list side alone: ListVersions calls, with the cleanup loop of
\* the store started or not
SpecList == Init /\ [][NextList]_vars

\* the Service alone, without the Cache: both of its operations
InitService == InitDownload /\ ~cacheEnabled

\* one client of the Service: it makes MaxServiceCalls calls, the next one
\* when the last has returned
MaxServiceCalls == 2

Quiet ==
    /\ ncalls + nlist < MaxServiceCalls
    /\ \A t \in DThreads : ~Active(t)
    /\ \A h \in LThreads : lv[h].pc \in {"idle", "done"}

ServiceDownload == \E t \in DThreads : Quiet /\ Call(t)

\* the caller cancels the ctx of its running call, or the deadline of the ctx
\* passes: ctx.Done() is closed. makeRequest builds its request with
\* http.NewRequest and without the ctx, and copy() has no ctx: no step of
\* the Service reads ctxDone.
CancelDownload(t) ==
    /\ Active(t)
    /\ ~dl[t].ctxDone
    /\ dl' = [dl EXCEPT ![t].ctxDone = TRUE]
    /\ UNCHANGED <<cfgvars, stvars, hdvars, lsvars, files, ncalls, hist, nfaults>>

CancelList(h) ==
    /\ ~crashed
    /\ lv[h].pc \notin {"idle", "done", "fatal"}
    /\ ~lv[h].ctxDone
    /\ LStep(h, [lv[h] EXCEPT !.ctxDone = TRUE])

ServiceList == \E h \in LThreads : Quiet /\ ListCall(h)

\* Handler.ListVersions up to its call of the Repository
HandlerListVersions(h) ==
    /\ Quiet
    /\ ~crashed
    /\ rw.pc # "called"
    /\ LET p == Params(target)
       IN  /\ lv' = [lv EXCEPT ![h] = [ListIdle EXCEPT !.pc = IF cacheEnabled THEN "get" ELSE "svc",
                                                       !.req = ListVersionsArgs(p)]]
           /\ rw' = [NoResponse EXCEPT !.pc = "called", !.route = "versions",
                                       !.params = p, !.g = h]
    /\ nlist' = nlist + 1
    /\ UNCHANGED <<cfgvars, stvars, dlvars, items, mu, now, cl, crashed, hnow, issued, dec, up>>

\* Handler.ListVersions from the Repository's return: respErr(w, err), or
\* the document with the implicit 200
RespondListVersions ==
    /\ rw.pc = "called" /\ rw.route = "versions"
    /\ lv[rw.g].pc = "done"
    /\ rw' = IF lv[rw.g].res # Nil
             THEN [rw EXCEPT !.pc = "responded", !.code = respErr(lv[rw.g].res)]
             ELSE [rw EXCEPT !.pc = "responded", !.code = StatusOK,
                             !.json = <<newListVersionsResponse(lv[rw.g].out)>>]
    /\ UNCHANGED <<cfgvars, stvars, dlvars, lsvars, hnow, issued, dec, up>>

\* Handler.ProxyDownload of a request without a token parameter, up to its
\* call of the Repository with w as the output sink
HandlerProxyDownload(t) ==
    /\ Quiet
    /\ rw.pc # "called"
    /\ LET p == Params(target)
       IN  /\ dl' = [dl EXCEPT ![t] = [Idle EXCEPT !.pc = IF cacheEnabled THEN "open" ELSE "svc",
                                                   !.req = ProxyDownloadArgs(p)]]
           /\ rw' = [NoResponse EXCEPT !.pc = "called", !.route = "proxy",
                                       !.params = p, !.g = t]
    /\ ncalls' = ncalls + 1
    /\ UNCHANGED <<cfgvars, stvars, lsvars, files, hist, nfaults, hnow, issued, dec, up>>

\* Handler.ProxyDownload from the Repository's return. The first Write to w
\* has sent the header with status 200: the WriteHeader of respErr after it
\* is ignored.
RespondProxyDownload ==
    /\ rw.pc = "called" /\ rw.route = "proxy"
    /\ dl[rw.g].pc = "done"
    /\ rw' = [rw EXCEPT !.pc = "responded",
                        !.code = IF dl[rw.g].sink # <<>> \/ dl[rw.g].res = Nil
                                 THEN StatusOK
                                 ELSE respErr(dl[rw.g].res)]
    /\ UNCHANGED <<cfgvars, stvars, dlvars, lsvars, hnow, issued, dec, up>>

NextHandler ==
    \/ RespondListVersions
    \/ RespondProxyDownload
    \/ \E t \in DThreads :
        \/ HandlerProxyDownload(t)
        \/ SvcProxyDownload(t)
        \/ SvcNext(t)
        \/ SvcData(t)
        \/ SvcTarClose(t)
        \/ SvcGzipClose(t)
    \/ \E h \in LThreads :
        \/ HandlerListVersions(h)
        \/ SvcListVersions(h)
        \/ SvcPage(h)

\* the Handler over the Service, without the Cache: one client, its next
\* request when the last is answered
SpecHandler == InitService /\ [][NextHandler]_vars

NextService ==
    \/ ServiceDownload
    \/ ServiceList
    \/ \E t \in DThreads :
        \/ CancelDownload(t)
        \/ SvcProxyDownload(t)
        \/ SvcNext(t)
        \/ SvcData(t)
        \/ SvcTarClose(t)
        \/ SvcGzipClose(t)
    \/ \E h \in LThreads :
        \/ CancelList(h)
        \/ SvcListVersions(h)
        \/ SvcPage(h)

SpecService == InitService /\ [][NextService]_vars

\* the restream of the Service alone, for a module name with and without a
\* "." in it
InitRewrite ==
    /\ cfgToken = ""
    /\ cfgRepositories \in AllowLists
    /\ DOMAIN cfgRepositories = {}
    /\ cacheEnabled = FALSE
    /\ target \in Requests \cup {DotRequest}
    /\ cfgExpiration = CacheTTL
    /\ InitArchive /\ InitList /\ InitHandler /\ InitStore
    /\ cl.pc = "off"

NextRewrite ==
    \/ ServiceDownload
    \/ \E t \in DThreads :
        \/ SvcProxyDownload(t)
        \/ SvcNext(t)
        \/ SvcData(t)
        \/ SvcTarClose(t)
        \/ SvcGzipClose(t)

SpecRewrite == InitRewrite /\ [][NextRewrite]_vars

\* the TTL store alone, called directly, with its cleanup loop started and
\* stopped by a caller
InitStoreOnly == InitService /\ DOMAIN cfgRepositories = {}

SpecStore == InitStoreOnly /\ [][NextStore]_vars

\* the TTL store called by one goroutine, a call at a time, with every key
\* and duration and with either default expiration
InitSweep ==
    /\ Init
    /\ cl.pc = "off"
    /\ ~cacheEnabled
    /\ DOMAIN cfgRepositories = {}

SweepCall(g) ==
    /\ g = "g1"
    /\ StoreCallOf(g, Keys, Durations)

NextSweep ==
    \/ Tick
    \/ \E g \in SThreads :
        \/ SweepCall(g)
        \/ StoreRLock(g)
        \/ StoreLock(g)
        \/ StoreGet(g)
        \/ Count(g)
        \/ StoreSet(g)
        \/ Delete(g)
        \/ StoreCleanup(g)
        \/ Flush(g)

SpecSweep == InitSweep /\ [][NextSweep]_vars

\* the Cache over the Service, asked for the archives of two repositories by
\* one client, a call at a time
InitKeys ==
    /\ Init
    /\ cfgExpiration = CacheTTL
    /\ cl.pc = "off"
    /\ cacheEnabled
    /\ DOMAIN cfgRepositories = {}

\* the Handler calls Cache.ProxyDownload for one of the requests
CallFor(t) ==
    /\ \A u \in DThreads : ~Active(u)
    /\ ncalls < MaxCalls
    /\ \E q \in HyphenRequests :
         dl' = [dl EXCEPT ![t] = [Idle EXCEPT !.pc = "open", !.req = q]]
    /\ ncalls' = ncalls + 1
    /\ UNCHANGED <<cfgvars, stvars, hdvars, lsvars, files, hist, nfaults>>

NextKeys ==
    \E t \in DThreads :
        \/ CallFor(t)
        \/ CacheOpen(t)
        \/ CacheCopy(t)
        \/ CacheCreate(t)
        \/ SvcProxyDownload(t)
        \/ SvcNext(t)
        \/ SvcData(t)
        \/ SvcTarClose(t)
        \/ SvcGzipClose(t)

SpecKeys == InitKeys /\ [][NextKeys]_vars

\* the Handler's tokens alone
InitToken ==
    /\ InitAll
    /\ cfgExpiration = CacheTTL
    /\ cl.pc = "off"
    /\ ~cacheEnabled
    /\ DOMAIN cfgRepositories = {}

SpecToken == InitToken /\ [][NextToken]_vars

----------------------------------------------------------------------------
(* Claims about Cache.ProxyDownload *)

Finished(t) == dl[t].pc = "done"

\* the allow-list lets the run's Archive Request through
Allowed == validRepo(cfgRepositories, target.owner, target.repo) = Nil

\* nothing but Open and Create has failed so far, and no two calls overlapped
Sequential == "overlap" \notin hist
UpstreamSucceeds == hist \cap {"upfail", "bodyfail"} = {}
StreamsSound == hist \cap {"readfault", "sinkfault", "cwfault"} = {}

\* C1: in a run of non-overlapping ProxyDownload calls for an allowed Archive
\* Request, with an upstream that always succeeds and no fault but failing
\* Opens and Creates, every call returns nil and its sink holds exactly the
\* archive the Service delivers, with the Cache or without it.
C1_CacheTransparency ==
    \A t \in DThreads :
        (Finished(t) /\ Allowed /\ Sequential /\ UpstreamSucceeds /\ StreamsSound)
            => (dl[t].res = Nil /\ dl[t].sink = Archive(dl[t].req))

\* a call went through the Cache, found the entry there but could not open
\* it, could not create it either, and still delivered the archive
C1_Witness ==
    \E t \in DThreads :
        /\ Finished(t) /\ Allowed /\ Sequential /\ UpstreamSucceeds /\ StreamsSound
        /\ cacheEnabled /\ files[Filename(target)].exists
        /\ ~dl[t].opened /\ dl[t].creates = 0 /\ dl[t].upcalls = 1
        /\ dl[t].sink = Archive(target)

\* C2: after a call whose upstream failed while the tarball was being
\* restreamed, every later call that returns nil has delivered the complete
\* archive (no truncated cache entry is served as a success).
C2_NoTruncatedEntryServed ==
    \A t \in DThreads :
        (Finished(t) /\ Sequential /\ "bodyfail" \in hist /\ dl[t].res = Nil)
            => dl[t].sink = Archive(dl[t].req)

\* C3: with an upstream that succeeds and no I/O fault, in every interleaving
\* of the calls each call that returns nil has delivered the complete archive.
C3_ConcurrentCallsCorrect ==
    \A t \in DThreads :
        (Finished(t) /\ nfaults = 0 /\ dl[t].res = Nil)
            => dl[t].sink = Archive(dl[t].req)

\* C4: a call whose write to the cache entry failed during the tee still
\* returns the upstream's result (nil: the upstream did not fail) and its
\* sink holds the archive.
C4_CacheWriteFaultAbsorbed ==
    \A t \in DThreads :
        (Finished(t) /\ Sequential /\ "cwfault" \in hist /\ dl[t].zerr)
            => (dl[t].res = Nil /\ dl[t].sink = Archive(dl[t].req))

\* C5: once Open has succeeded the call neither creates a cache entry nor
\* calls the wrapped Repository (no HTTP request either); it returns nil
\* having delivered all it read, or the error of the copy.
C5_HitNeverCallsUpstream ==
    \A t \in DThreads :
        dl[t].opened =>
            /\ dl[t].pc \in {"copy", "done"}
            /\ dl[t].upcalls = 0 /\ dl[t].creates = 0 /\ dl[t].http = 0
            /\ dl[t].cw = "none"
            /\ Finished(t) =>
                 \/ dl[t].res = Nil /\ Len(dl[t].sink) = dl[t].roff
                 \/ /\ dl[t].res \in {Errorf("read cached file"), Errorf("write to sink")}
                    /\ hist \cap {"readfault", "sinkfault"} # {}

\* a copy from the cache failed partway and the call returned that error
C5_Witness ==
    \E t \in DThreads :
        /\ dl[t].opened /\ Finished(t)
        /\ dl[t].res = Errorf("write to sink")
        /\ Len(dl[t].sink) > 0 /\ dl[t].upcalls = 0

----------------------------------------------------------------------------
(* Claims about Cache.ListVersions *)

CacheKey(h) == Key(lv[h].req)

\* the goroutine's previous Cache.ListVersions returned versions, and their
\* entry had not expired when this call began
WithinExpiration(h) ==
    /\ lv[h].prev.res = "ok"
    /\ lv[h].prev.expires = 0 \/ now <= lv[h].prev.expires

\* C6: no Cache.ListVersions call ends the process; a call made after a call
\* that returned versions, within the expiration of their entry, returns the
\* same versions without calling the wrapped Repository (one call of it for
\* the two); and a call that returns what the wrapped Repository gave it has
\* left it in the store.
C6_CacheIdempotence ==
    \A h \in LThreads :
        cacheEnabled =>
            /\ lv[h].pc # "fatal"
            /\ (lv[h].pc = "done" /\ WithinExpiration(h))
                 => (lv[h].res = Nil /\ lv[h].upcalls = 0 /\ lv[h].out = lv[h].prev.out)
            /\ (lv[h].pc = "done" /\ lv[h].res = Nil /\ lv[h].upcalls = 1)
                 => CacheKey(h) \in DOMAIN items

\* C7: a Cache.ListVersions call made after one that returned the wrapped
\* Repository's error does not end the process and calls the wrapped
\* Repository again; a call that returns an error has called the wrapped
\* Repository once, which failed, and the store holds no entry of it.
C7_ErrorsNotCached ==
    \A h \in LThreads :
        cacheEnabled =>
            /\ lv[h].prev.res = "err" =>
                 /\ lv[h].pc \notin {"fatal"}
                 /\ lv[h].pc = "done" => lv[h].upcalls = 1
            /\ (lv[h].pc = "done" /\ lv[h].res # Nil) =>
                 (lv[h].upcalls = 1 /\ ~lv[h].hit /\ items = << >>)

----------------------------------------------------------------------------
(* Claims about the allow-list *)

Forbidden == httpErr(StatusForbidden, "not a valid repository")

\* the allow-list is not empty and does not list the container under the owner
Disallowed(q) ==
    /\ DOMAIN cfgRepositories # {}
    /\ ~(/\ q.owner \in DOMAIN cfgRepositories
         /\ q.repo \in {cfgRepositories[q.owner][i] :
                          i \in 1..Len(cfgRepositories[q.owner])})

\* C8: a call of Service.ProxyDownload or Service.ListVersions for a container
\* the non-empty allow-list does not list issues no HTTP request and returns
\* the Forbidden error; a call for any other container, or with an empty
\* allow-list, never returns it, and never returns a 403 without a request.
C8_ForbiddenIffDisallowed ==
    /\ \A t \in DThreads :
         dl[t].pc # "idle" =>
            /\ Disallowed(dl[t].req) => dl[t].http = 0
            /\ Finished(t) =>
                 /\ (dl[t].res = Forbidden) <=> Disallowed(dl[t].req)
                 /\ (dl[t].res.code = StatusForbidden /\ dl[t].http = 0)
                      => Disallowed(dl[t].req)
    /\ \A h \in LThreads :
         lv[h].pc # "idle" =>
            /\ Disallowed(lv[h].req) => lv[h].http = 0
            /\ lv[h].pc = "done" =>
                 /\ (lv[h].res = Forbidden) <=> Disallowed(lv[h].req)
                 /\ (lv[h].res.code = StatusForbidden /\ lv[h].http = 0)
                      => Disallowed(lv[h].req)

\* both operations have refused a container that is not listed, and without
\* a request
C8_Witness ==
    \E t \in DThreads, h \in LThreads :
        /\ Finished(t) /\ lv[h].pc = "done"
        /\ Disallowed(target)
        /\ dl[t].res = Forbidden /\ lv[h].res = Forbidden
        /\ dl[t].http = 0 /\ lv[h].http = 0

\* C9: behind the Cache no ProxyDownload call for a container outside the
\* non-empty allow-list returns nil.
C9_AllowListNotBypassed ==
    \A t \in DThreads :
        (cacheEnabled /\ Finished(t) /\ Disallowed(dl[t].req)) => dl[t].res # Nil

----------------------------------------------------------------------------
(* Claims about the pagination of Service.ListVersions *)

\* the last page received was short
LastShort(r) == Len(r.lens) > 0 /\ r.lens[Len(r.lens)] < tagsPerPage

\* C10: the pages requested are 1, 2, 3, ... in order, each once; every page
\* before the last one requested was full; while the loop runs every page
\* received was full and the next one is the next to request; the loop is
\* over exactly when the last request failed or its page was short.
C10_Pagination ==
    \A h \in LThreads :
        LET r == lv[h]
            asked == Len(r.pages)
            got == Len(r.lens)
        IN  /\ \A i \in 1..asked : r.pages[i] = i
            /\ asked = r.http
            /\ got \in {asked - 1, asked} /\ got >= 0
            /\ \A i \in 1..got : i < asked => r.lens[i] >= tagsPerPage
            /\ r.pc = "page" => (got = asked /\ ~LastShort(r) /\ r.page = asked + 1)
            /\ (r.pc # "page" /\ asked > 0) => (got = asked - 1 \/ LastShort(r))

\* a listing of MaxPages pages: all full but the last, and the call returned
C10_Witness ==
    \E h \in LThreads :
        /\ lv[h].pc = "done" /\ lv[h].res = Nil
        /\ lv[h].pages = [i \in 1..MaxPages |-> i]
        /\ \A i \in 1..(MaxPages - 1) : lv[h].lens[i] >= tagsPerPage
        /\ LastShort(lv[h])

----------------------------------------------------------------------------
(* Claims about the versions Service.ListVersions returns *)

\* the versions of a listing, by position: the k-th version is the name at
\* the k-th position that starts with the prefix, without the prefix
MatchingVersions(tags, prefix) ==
    LET I == {i \in 1..Len(tags) : HasPrefix(tags[i], prefix)}
        At(k) == CHOOSE i \in I : Cardinality({j \in I : j <= i}) = k
    IN  [k \in 1..Cardinality(I) |->
            SubSeq(tags[At(k)], Len(prefix) + 1, Len(tags[At(k)]))]

Modules == {q.module : q \in Requests}

\* the versions of each page the upstream can answer with
PageVersions ==
    [m \in Modules |-> [n \in PageLens |-> MatchingVersions(TagPage(n), m \o "/")]]

RECURSIVE ListingVersions(_, _, _)
\* the versions of the pages i.. of a listing whose pages have lens tags
ListingVersions(m, lens, i) ==
    IF i > Len(lens) THEN <<>>
    ELSE PageVersions[m][lens[i]] \o ListingVersions(m, lens, i + 1)

\* C11: the versions Service.ListVersions has collected, and those it returns
\* with a nil error, are the names of the pages received, pages in order and
\* names in page order, that start with "<module>/", without that prefix:
\* nothing sorted, nothing dropped, and an empty sequence when none matches.
C11_VersionsInOrder ==
    \A h \in LThreads :
        /\ lv[h].pc = "page" =>
             lv[h].versions = ListingVersions(lv[h].req.module, lv[h].lens, 1)
        /\ (lv[h].pc = "done" /\ lv[h].res = Nil) =>
             lv[h].out = ListingVersions(lv[h].req.module, lv[h].lens, 1)

\* a listing of two pages returned: the first full, with names that match
\* more than once and out of order, the second with names of which none
\* matches
C11_Witness ==
    \E h \in LThreads :
        /\ lv[h].pc = "done" /\ lv[h].res = Nil
        /\ lv[h].lens = <<tagsPerPage, 2>>
        /\ Len(lv[h].out) > 4
        /\ SubSeq(lv[h].out, 1, 4) = <<"2.0.0", "1.0.0", "2.0.0", "">>

----------------------------------------------------------------------------
(* Claims about the errors of the hosting API *)

\* the last response the call received had a non-success status
NonSuccess(r) == r.status \notin {0, StatusOK}

\* C12: once a response with a non-success status has come in, the operation
\* has returned: an error with a StatusCode method that gives exactly that
\* status, no request after the one so answered, no versions returned and
\* nothing written to the sink.
C12_StatusSurfacedOnce ==
    /\ \A t \in DThreads :
         NonSuccess(dl[t]) =>
            /\ Finished(t)
            /\ dl[t].res.kind = "httpErr" /\ dl[t].res.code = dl[t].status
            /\ dl[t].http = 1
            /\ dl[t].sink = <<>>
    /\ \A h \in LThreads :
         NonSuccess(lv[h]) =>
            /\ lv[h].pc = "done"
            /\ lv[h].res.kind = "httpErr" /\ lv[h].res.code = lv[h].status
            /\ lv[h].http = Len(lv[h].lens) + 1
            /\ lv[h].pages = [i \in 1..lv[h].http |-> i]
            /\ lv[h].out = <<>>

\* a listing failed with the API's 404 on its second page, and a download
\* with its 500
C12_Witness ==
    \E t \in DThreads, h \in LThreads :
        /\ Finished(t) /\ dl[t].status = 500 /\ dl[t].res.code = 500
        /\ lv[h].pc = "done" /\ lv[h].status = 404 /\ lv[h].res.code = 404
        /\ lv[h].pages = <<1, 2>> /\ lv[h].versions # <<>> /\ lv[h].out = <<>>

----------------------------------------------------------------------------
(* Claims about cancellation *)

\* C13: while the ctx of a running call is done, the call issues no request
\* to the hosting API and starts to copy no entry of the tarball.
C13_CancellationAborts ==
    [][/\ \A t \in DThreads :
            (dl[t].ctxDone /\ dl'[t].ctxDone) =>
                /\ dl'[t].http = dl[t].http
                /\ ~(dl[t].pc = "next" /\ dl'[t].pc = "data")
       /\ \A h \in LThreads :
            (lv[h].ctxDone /\ lv'[h].ctxDone) => lv'[h].http = lv[h].http]_vars


\* the text decoded in this step is the token DownloadURL issued
DecodesIssued == dec' # dec /\ issued # NoIssued /\ dec'.text = issued.text

\* C14: decoding at time t the token encoded for credential c at time t0,
\* times being any ticks of the clock and not only whole seconds, returns c
\* when t < t0 + expiration and fails with the expired-token error when
\* t >= t0 + expiration.
C14_TokenValidityWindow ==
    [][DecodesIssued =>
         IF hnow < issued.at + TokenExpiration * TicksPerSecond
         THEN dec'.out = Ok(issued.token)
         ELSE dec'.out.kind = "error" /\ dec'.out.is = errTokenExpired]_vars

\* the text is hexadecimal and what follows its nonce does not authenticate
\* under the ProxySecret and the nonce
FailsAuthentication(text) ==
    /\ text.extra = ""
    /\ Len(text.bytes) >= NonceSize
    /\ ~Open(ProxySecret, SubSeq(text.bytes, 1, NonceSize),
             SubSeq(text.bytes, NonceSize + 1, Len(text.bytes))).ok

\* C15: decoding a token whose ciphertext fails authentication (corrupted,
\* truncated or sealed under another key) fails with the invalid-token error.
C15_AuthenticationFailureIsInvalidToken ==
    (dec.out.kind # "none" /\ FailsAuthentication(dec.text)) =>
        dec.out.kind = "error" /\ dec.out.is = errInvalidToken

\* C16: decoding any text returns a credential or an error and never faults;
\* text whose decoded bytes are shorter than one nonce gives an error.
C16_DecodeNeverFaults ==
    /\ dec.out.kind \in {"none", "ok", "error"}
    /\ (dec.out.kind # "none" /\ dec.text.extra = "" /\ Len(dec.text.bytes) < NonceSize) =>
           dec.out.kind = "error"


\* the credential the upstream call of the last proxy-download request is
\* to carry: that of the token parameter, else that of the Authorization
\* header, else the static one
Precedence ==
    IF dec.text # NoText THEN dec.out.value
    ELSE IF up.header.bearer # "" THEN up.header.bearer
    ELSE cfgToken

\* C17: the upstream call of a proxy-download request carries the credential
\* decoded from the token parameter when there is one, otherwise the bearer
\* credential of the request's Authorization header when there is one,
\* otherwise the static credential; it has no Authorization header only when
\* all three are empty.
C17_CredentialPrecedence ==
    up.sent =>
        /\ Precedence # "" => up.authorization = "Bearer " \o Precedence
        /\ up.authorization = "" => Precedence = ""

\* a request with a token parameter, a bearer credential and a static
\* credential, the three different, was sent upstream
C17_Witness ==
    /\ up.sent
    /\ dec.text # NoText
    /\ up.header.bearer # ""
    /\ cfgToken # ""
    /\ dec.out.value # up.header.bearer


\* goroutine g's Get runs its lookup in this step
GetLooksUp(g) == st[g].op = "Get" /\ st[g].pc = "rlocked" /\ st'[g] # st[g]

\* the store holds for the key what a Set with a positive expiration wrote
\* last; its expiry is the time of that Set plus the expiration
SetWithExpiration(k) == k \in DOMAIN items /\ items[k].expires > 0

\* C18: after Set(k, v) at time t0 with a positive expiration d and no later
\* write to k, Get(k) returns (v, true) at every time before t0 + d and
\* found = false at every time after t0 + d; Get of a key never set returns
\* found = false.
C18_ReadSemantics ==
    [][\A g \in SThreads :
         GetLooksUp(g) =>
            LET k == st[g].key
            IN  /\ (SetWithExpiration(k) /\ now < items[k].expires) =>
                       /\ st'[g].pc = "done"
                       /\ st'[g].out.ok /\ st'[g].out.value = items[k].value
                /\ (SetWithExpiration(k) /\ now > items[k].expires) =>
                       st'[g].pc = "done" /\ ~st'[g].out.ok
                /\ k \notin DOMAIN items =>
                       st'[g].pc = "done" /\ ~st'[g].out.ok]_vars

\* no call of the store is under way, by a goroutine or by the cleanup loop
AllReturned ==
    /\ \A g \in SThreads : st[g].pc \in {"idle", "done"}
    /\ cl.pc \in {"off", "new", "sleep", "returned"}

\* C19: in every interleaving of calls of the store no call faults, and once
\* all calls have returned neither a reader nor a writer holds the lock.
C19_LockDiscipline ==
    /\ ~crashed
    /\ \A g \in SThreads : st[g].pc # "fatal"
    /\ AllReturned => (mu.readers = 0 /\ ~mu.w /\ ~mu.pending)

\* C20: when the stop function of StartCleanupLoop has returned, the loop has
\* returned: no Cleanup is under way and none starts afterwards.
C20_GracefulStop ==
    caller = "stopped" => cl.pc = "returned"


\* C21: once the stop function of the cleanup loop has been invoked, no new
\* Cleanup call starts, even when a tick of the ticker is pending together
\* with the stop signal.
C21_NoCleanupAfterStop ==
    [][sc => ~(cl.pc = "sleep" /\ cl'.pc = "lock")]_vars


\* the entry's path has the form <owner>-<container>-<ref>/<module>/<rest>
\* with a <rest> that is not empty
OfModule(q, e) ==
    /\ \E ref \in Refs : e.top = q.owner \o "-" \o q.repo \o "-" \o ref
    /\ e.mod = q.module
    /\ e.rest # ""

RECURSIVE EntriesOfModule(_, _, _)
\* the header and contents of the entries i.. of the module, renamed to <rest>
EntriesOfModule(q, es, i) ==
    IF i > Len(es) THEN << >>
    ELSE (IF OfModule(q, es[i]) THEN <<HdrChunk(es[i]), DatChunk(es[i])>> ELSE << >>)
         \o EntriesOfModule(q, es, i + 1)

\* C22: the archive Service.ProxyDownload writes, when nothing fails, holds
\* exactly the source entries of the form <owner>-<container>-<ref>/<module>/<rest>
\* with <rest> not empty, in source order, each renamed to <rest> with its
\* contents; entries of sibling modules and of directories above never appear.
C22_TarRewrite ==
    \A t \in DThreads :
        (dl[t].pc = "done" /\ dl[t].res = Nil /\ nfaults = 0) =>
            dl[t].sink = <<GzHdr>> \o EntriesOfModule(dl[t].req, Tarball(dl[t].req), 1)
                           \o <<TarEnd, GzEnd>>


\* C27: Service.ProxyDownload returns success only if every matching entry
\* was copied in full and the trailers of tar and gzip were written: a call
\* that returns nil has written the whole archive to its output sink.
C27_SuccessMeansComplete ==
    \A t \in DThreads :
        (dl[t].pc = "done" /\ dl[t].res = Nil /\ dl[t].upcalls > 0) =>
            dl[t].sink = Archive(dl[t].req)


\* C25: when the token parameter of a proxy-download request does not
\* decode, whatever the reason, the Handler answers with an error and does
\* not call Repository.ProxyDownload: no upstream request is sent with the
\* credential of the Authorization header or the static one.
C25_NoFallbackOnBadToken ==
    (dec.text # NoText /\ dec.out.kind # "ok") =>
        /\ ~up.called /\ ~up.sent
        /\ up.code >= 400


\* the error the Repository returned to the Handler for the answered request
ReturnedError ==
    IF rw.route = "versions" THEN lv[rw.g].res ELSE dl[rw.g].res

\* C23: when the Repository returns an error to the Handler, the Handler
\* answers with the status code the error carries (403 for Forbidden, the
\* upstream's 404 for a 404) and with 500 when it carries none, and writes
\* no version list.
C23_ErrorStatus ==
    (rw.pc = "responded" /\ ReturnedError # Nil) =>
        /\ ReturnedError.kind = "httpErr" => rw.code = ReturnedError.code
        /\ ReturnedError.kind # "httpErr" => rw.code = 500
        /\ rw.json = <<>>

CompleteBy(t) ==
    /\ Finished(t) /\ dl[t].res = Nil
    /\ dl[t].creates > 0
    /\ FileOf(t).exists /\ FileOf(t).data = Archive(dl[t].req)

\* C26: once a successful Cache.ProxyDownload has written an archive cache
\* entry completely, no step of a later call for the same Archive Request
\* changes the entry or calls the wrapped Repository, whatever faults the
\* archive store has.
C26_CompleteEntryKept ==
    [][\A t \in DThreads :
          (cacheEnabled /\ Sequential /\ CompleteBy(t)) =>
              /\ files'[Filename(dl[t].req)] = files[Filename(dl[t].req)]
              /\ \A u \in DThreads : dl'[u].upcalls <= dl[u].upcalls]_vars


\* C28: a version list Cache.ListVersions returns from the store was stored
\* no longer ago than the configured expiration (its expiry has not passed);
\* a call that finds no entry, or one whose expiration has elapsed, goes on
\* to the wrapped Repository, and its Set overwrites the entry with the
\* result and a fresh expiry.
C28_BoundedStaleness ==
    [][\A h \in LThreads :
          cacheEnabled =>
              /\ (lv[h].pc = "get_locked" /\ lv'[h].hit) =>
                     /\ CacheKey(h) \in DOMAIN items
                     /\ cfgExpiration > 0 => now <= items[CacheKey(h)].expires
              /\ (lv[h].pc = "get_locked" /\ lv'[h] # lv[h]
                    /\ ~GetItem(items, CacheKey(h), now).ok) =>
                     lv'[h].pc = "svc"
              /\ (lv[h].pc = "set_locked" /\ lv'[h] # lv[h]) =>
                     /\ CacheKey(h) \in DOMAIN items'
                     /\ items'[CacheKey(h)].value = lv[h].out
                     /\ cfgExpiration > 0 =>
                            items'[CacheKey(h)].expires \in (now - MaxTime)..(now + cfgExpiration)]_vars


\* goroutine g's Cleanup sweeps the store in this step
CleanupSweeps(g) == st[g].op = "Cleanup" /\ st[g].pc = "wlocked" /\ st'[g].pc = "done"

\* C29: Cleanup at time t removes exactly the entries that are expired at t,
\* those the lookup of Get at t does not return, keeps every other entry as
\* it was, and returns the number of entries it removed.
C29_CleanupExact ==
    [][\A g \in SThreads :
          CleanupSweeps(g) =>
              /\ DOMAIN items' = { k \in DOMAIN items : GetItem(items, k, now).ok }
              /\ \A k \in DOMAIN items' : items'[k] = items[k]
              /\ \A k \in DOMAIN items \ DOMAIN items' : expired(items[k], now)
              /\ st'[g].out.count = Cardinality(DOMAIN items \ DOMAIN items')]_vars

\* a Cleanup has removed one entry and kept another
C29_Witness ==
    \E g \in SThreads :
        /\ st[g].op = "Cleanup" /\ st[g].pc = "done"
        /\ st[g].out.count = 1
        /\ Cardinality(DOMAIN items) = 1
        /\ mu = RWMutexInit

\* the duration Set uses for the call: the per-call one if given, else the
\* default of the store
DurationOf(r) == IF Len(r.d) > 0 THEN r.d[1] ELSE cfgExpiration

\* C30: an entry stored with the no-expiration duration, per call or by
\* default, is returned by every later Get and is removed by no Cleanup; the
\* duration given to a Set decides the expiry of its entry, and of no other.
C30_NoExpiration ==
    [][\A g \in SThreads :
          /\ (st[g].op = "Set" /\ st[g].pc = "wlocked" /\ st'[g] # st[g]) =>
                 /\ st[g].key \in DOMAIN items'
                 /\ DurationOf(st[g]) = NoExpiration => items'[st[g].key].expires = 0
                 /\ DurationOf(st[g]) > 0 => items'[st[g].key].expires > 0
                 /\ \A k \in DOMAIN items \ {st[g].key} :
                        k \in DOMAIN items' /\ items'[k] = items[k]
          /\ (CleanupSweeps(g) \/ (st[g].op = "Get" /\ st[g].pc = "rlocked" /\ st'[g] # st[g])) =>
                 \A k \in DOMAIN items :
                     items[k].expires = 0 => k \in DOMAIN items' /\ items'[k] = items[k]
          /\ (st[g].op = "Get" /\ st[g].pc = "rlocked" /\ st'[g] # st[g]
                /\ st[g].key \in DOMAIN items /\ items[st[g].key].expires = 0) =>
                 /\ st'[g].pc = "done"
                 /\ st'[g].out.ok /\ st'[g].out.value = items[st[g].key].value]_vars


\* goroutine g's call of a method that writes the map runs its body in this step
Writes(g, ops) == st[g].op \in ops /\ st[g].pc = "wlocked" /\ st'[g].pc = "done"

\* the cleanup loop's Cleanup sweeps the store in this step
LoopSweeps == cl.pc = "locked" /\ cl'.pc = "sleep"

\* C31: no step of a Get changes the store, whether the Get finds the entry,
\* misses it or finds it expired; an entry leaves the map only in a step of
\* Delete, Cleanup or Flush and changes only in a step of Set for its key.
C31_GetFrame ==
    [][/\ \A g \in SThreads :
             (st[g].op = "Get" /\ st'[g] # st[g]) => items' = items
       /\ \A k \in DOMAIN items :
             /\ k \notin DOMAIN items' =>
                    \/ LoopSweeps
                    \/ \E g \in SThreads : Writes(g, {"Delete", "Cleanup", "Flush"})
             /\ (k \in DOMAIN items' /\ items'[k] # items[k]) =>
                    \E g \in SThreads : Writes(g, {"Set"}) /\ st[g].key = k]_vars

\* a Get has returned found = false for an entry that is expired, and the
\* entry is still in the map
C31_Witness ==
    \E g \in SThreads :
        /\ st[g].op = "Get" /\ st[g].pc = "done"
        /\ ~st[g].out.ok
        /\ st[g].key \in DOMAIN items
        /\ expired(items[st[g].key], now)


\* C33: when a Cache.ProxyDownload call has returned, the handle it got from
\* Open of the archive store is closed, whether the copy to the output sink
\* succeeded or failed.
C33_ReadHandleClosed ==
    \A t \in DThreads :
        Finished(t) => dl[t].rd # "open"


\* the Module Coordinate of an Archive Request
Coordinate(q) == [owner |-> q.owner, repo |-> q.repo, module |-> q.module]

\* C32: two different Module Coordinates that are asked for never have the
\* same version-cache key and two different Archive Requests never the same
\* archive filename; a call served from the cache without a fault delivers
\* the archive of the request it was made for.
C32_KeysInjective ==
    \A t \in DThreads :
        /\ \A u \in DThreads :
              (dl[t].req # NoReq /\ dl[u].req # NoReq) =>
                  /\ Filename(dl[t].req) = Filename(dl[u].req) => dl[t].req = dl[u].req
                  /\ Key(dl[t].req) = Key(dl[u].req) =>
                         Coordinate(dl[t].req) = Coordinate(dl[u].req)
        /\ (Finished(t) /\ dl[t].opened /\ dl[t].res = Nil /\ nfaults = 0) =>
              dl[t].sink = Archive(dl[t].req)

====
